---- MODULE Spec2Model ----
(***************************************************************************)
(* A model of imagemagick_desktop_maker.py: the missing-work scan, the     *)
(* planning loop, the three pool stages (rasterize, effects, compose) that *)
(* main runs per wallpaper, the deletion of effect temporaries and the     *)
(* removal of the process-scoped temp directory.                           *)
(*                                                                         *)
(* File names are pairs <<stem, extension>> (what os.path.splitext         *)
(* returns).  A style is <<name>> for a base style and <<family, color>>   *)
(* for a family/color style ("family/color" in the source).  Names built   *)
(* by string concatenation are sequences of word tokens, so that           *)
(* concatenation is sequence concatenation.                                *)
(***************************************************************************)
EXTENDS Integers, Sequences, FiniteSets, TLC

(***************************************************************************)
(* Bounds of the model.                                                    *)
(***************************************************************************)
MaxPresent == 1
MaxRuns == 2
MaxWideArgs == 1
NumCpu == 3
MaxTasks == 24
MaxWorkers == 3
Width == 2
OldCpu == 2
\* worker processes of the pool in the model of the processes
MaxProcs == 2

(***************************************************************************)
(* Universe of directory entries, in the order sorted(os.listdir()) gives. *)
(***************************************************************************)
AllWallpapers == << <<"a", ".jpg">>, <<"a", ".png">>, <<"b", ".jpg">>, <<"c", ".txt">> >>

AllMasks == << <<"m", ".SVG">>, <<"m", ".svg">>, <<"n", ".svg">> >>

Range(s) == {s[i] : i \in 1..Len(s)}

InSeq(x, s) == \E i \in 1..Len(s) : s[i] = x

\* sorted(os.listdir(dir)) for a directory holding the entries `dir`
SortedListing(universe, dir) == SelectSeq(universe, LAMBDA f : f \in dir)

\* Image.size of a wallpaper file
WalSize(f) == IF f = <<"a", ".png">> THEN <<4, 3>> ELSE <<16, 9>>

SupportedExt == {".jpg", ".jpeg", ".png"}

(***************************************************************************)
(* Styles and effects.                                                     *)
(***************************************************************************)
STYLES ==
    {"Blur", "Flip", "InverseBlur", "InverseBlurDarker", "InverseNegate",
     "InversePixelate", "LogoColors", "Negate", "Pixelate", "ThroughBlack"}

ColorFamilies == {"ColorOverlay", "ColorOverlayBlur", "ColorThrough"}

all_effects == STYLES \cup ColorFamilies

\* the part of ALL_COLORS_DICT the model selects from: "#rrggbb" as "#" and
\* the values of its six hexadecimal digits
ALL_COLORS_DICT ==
    [c \in {"ArchBlue", "Black", "White"} |->
        CASE c = "ArchBlue" -> <<"#", 0, 15, 9, 4, 13, 2>>
          [] c = "Black" -> <<"#", 0, 0, 0, 0, 0, 0>>
          [] c = "White" -> <<"#", 15, 15, 15, 15, 15, 15>>]

\* the color names of ALL_COLORS_DICT (the umlaut of one name is written ue)
Palette ==
    {"AerospaceOrange", "AmaranthPurple", "Amethyst", "AnexiaBlue", "Aquamarine", "ArchBlue",
     "Black", "BrilliantRose", "CambridgeBlue", "DebianRed", "DeepSkyBlue", "EndeavourPurple",
     "FedoraBlue", "KnappBlue", "Lion", "Maize", "ManjaroGreen", "MidnightGreen", "MintGreen",
     "Nachtblau", "Sapphire", "SelectiveYellow", "SovietRed", "SuseGreen", "Tannengruen",
     "Tekhelet", "UbuntuOrange", "Verkehrsrot", "White"}

\* every style string the run can build, in the order sorted() gives
AllStylesSorted ==
    << <<"Blur">>,
       <<"ColorOverlay", "Black">>, <<"ColorOverlay", "White">>,
       <<"ColorOverlayBlur", "Black">>, <<"ColorOverlayBlur", "White">>,
       <<"ColorThrough", "Black">>, <<"ColorThrough", "White">>,
       <<"Flip">>, <<"InverseBlur">>, <<"InverseBlurDarker">>,
       <<"InverseNegate">>, <<"InversePixelate">>, <<"LogoColors">>,
       <<"Negate">>, <<"Pixelate">>, <<"ThroughBlack">> >>

StyleRank(s) == CHOOSE i \in 1..Len(AllStylesSorted) : AllStylesSorted[i] = s

\* sorted(list of styles): keeps repeated entries
SortedStyles(l) == SortSeq(l, LAMBDA x, y : StyleRank(x) < StyleRank(y))

\* the words of a name: the parts an underscore or a capital letter starts
Tok(s) ==
    CASE s = "ColorOverlay" -> <<"Color", "Overlay">>
      [] s = "ColorOverlayBlur" -> <<"Color", "Overlay", "Blur">>
      [] s = "ColorThrough" -> <<"Color", "Through">>
      [] s = "InverseBlur" -> <<"Inverse", "Blur">>
      [] s = "InverseBlurDarker" -> <<"Inverse", "Blur", "Darker">>
      [] s = "InverseNegate" -> <<"Inverse", "Negate">>
      [] s = "InversePixelate" -> <<"Inverse", "Pixelate">>
      [] s = "LogoColors" -> <<"Logo", "Colors">>
      [] s = "ThroughBlack" -> <<"Through", "Black">>
      [] s = "blurred_dark" -> <<"blurred", "dark">>
      [] s = "blurred_darker" -> <<"blurred", "darker">>
      [] s = "dark_a" -> <<"dark", "a">>
      [] s = "darker_a" -> <<"darker", "a">>
      [] s = "m_4x3" -> <<"m", "4x3">>
      [] OTHER -> <<s>>

\* str.removeprefix("Color")
RemovePrefixColor(t) == IF Len(t) >= 1 /\ t[1] = "Color" THEN Tail(t) ELSE t

\* mutant of OutName: the family of a family/color style is left out
OutNameColorOnly(style) == Tok(style[Len(style)])

\* file name (without ".jpg") of a style's output
OutName(style) ==
    IF Len(style) = 2
    THEN Tok(style[2]) \o RemovePrefixColor(Tok(style[1]))
    ELSE Tok(style[1])

\* os.path.join(args.outdir, motive, imgname, <name> + ".jpg")
OutPath(motive, imgname, style) == <<motive, imgname, OutName(style)>>

\* dynamic_styles built from --effects and --colors
RECURSIVE ColorStyles(_, _, _)
ColorStyles(selected_effects, selected_colors, i) ==
    IF i > Len(selected_colors) THEN <<>>
    ELSE LET color == selected_colors[i] IN
         (IF InSeq("ColorOverlay", selected_effects) THEN << <<"ColorOverlay", color>> >> ELSE <<>>)
         \o (IF InSeq("ColorOverlayBlur", selected_effects) THEN << <<"ColorOverlayBlur", color>> >> ELSE <<>>)
         \o (IF InSeq("ColorThrough", selected_effects) THEN << <<"ColorThrough", color>> >> ELSE <<>>)
         \o ColorStyles(selected_effects, selected_colors, i + 1)

BaseStyles(selected_effects) ==
    LET keep == SelectSeq(selected_effects, LAMBDA e : e \notin ColorFamilies)
    IN [i \in 1..Len(keep) |-> <<keep[i]>>]

dynamic_styles(selected_effects, selected_colors) ==
    BaseStyles(selected_effects) \o ColorStyles(selected_effects, selected_colors, 1)

\* mutant of StyleEffects: InverseBlur is treated like Blur
StyleEffectsBlurAlike(style) ==
    IF style[1] = "ColorOverlayBlur" THEN {"blurred"}
    ELSE IF style \in {<<"Blur">>, <<"InverseBlur">>} THEN {"blurred_dark", "brightened"}
    ELSE IF style = <<"InverseBlurDarker">> THEN {"blurred_darker"}
    ELSE IF style = <<"Flip">> THEN {"flipped"}
    ELSE IF style \in {<<"Negate">>, <<"InverseNegate">>} THEN {"negated"}
    ELSE IF style \in {<<"Pixelate">>, <<"InversePixelate">>} THEN {"pixelated"}
    ELSE {}

\* the effects the if/elif chain of main adds for one style
StyleEffects(style) ==
    IF style[1] = "ColorOverlayBlur" THEN {"blurred"}
    ELSE IF style = <<"Blur">> THEN {"blurred_dark", "brightened"}
    ELSE IF style = <<"InverseBlur">> THEN {"blurred_dark"}
    ELSE IF style = <<"InverseBlurDarker">> THEN {"blurred_darker"}
    ELSE IF style = <<"Flip">> THEN {"flipped"}
    ELSE IF style = <<"Negate">> THEN {"negated"}
    ELSE IF style = <<"InverseNegate">> THEN {"negated"}
    ELSE IF style = <<"Pixelate">> THEN {"pixelated"}
    ELSE IF style = <<"InversePixelate">> THEN {"pixelated"}
    ELSE {}

\* effect_set of main for a wallpaper's styles_list
effect_set(styles_list) == UNION {StyleEffects(styles_list[i]) : i \in 1..Len(styles_list)}

\* mutant of compute_chunksize: the quotient without max(1, ...)
compute_chunksizeUnclamped(n_tasks, n_workers) ==
    LET w == IF n_workers # <<>> /\ n_workers[1] # 0 THEN n_workers[1] ELSE 1
    IN IF n_tasks <= 0 THEN 1 ELSE n_tasks \div (IF w * 4 > 1 THEN w * 4 ELSE 1)

\* compute_chunksize(n_tasks, n_workers); n_workers is <<k>> for the integer
\* k and <<>> for None
compute_chunksize(n_tasks, n_workers) ==
    LET w == IF n_workers # <<>> /\ n_workers[1] # 0 THEN n_workers[1] ELSE 1
        denom == IF w * 4 > 1 THEN w * 4 ELSE 1
        q == n_tasks \div denom
    IN IF n_tasks <= 0 THEN 1 ELSE IF q > 1 THEN q ELSE 1

\* workers = max(1, cpu - 1)
workers == IF NumCpu - 1 > 1 THEN NumCpu - 1 ELSE 1

(***************************************************************************)
(* Temp-file names under TEMPDIR.                                          *)
(***************************************************************************)
\* f"{effect}_{walname}.jpg"
EffectTemp(effect, walname) == Tok(effect) \o Tok(walname)

\* f"{width}x{height}"
SizeTok(size) ==
    CASE size = <<16, 9>> -> "16x9"
      [] size = <<4, 3>> -> "4x3"
      [] size = <<1, 1>> -> "1x1"

\* f"{kind}_{maskname}_{width}x{height}.png", kind in mask, shadow, logocolor
MaskTemp(kind, maskname, size) == <<kind>> \o Tok(maskname) \o <<SizeTok(size)>>

(***************************************************************************)
(* State.                                                                  *)
(***************************************************************************)
VARIABLES
    walDir,            \* entries of args.wallpaperdir
    svgDir,            \* entries of args.svgdir
    effectsArg,        \* --effects
    colorsArg,         \* --colors
    outRootExisted,    \* args.outdir existed when the first run started
    probe,             \* the keys and names of a naming step (<<>> in a run of main)
    chunk,             \* a call of compute_chunksize: arguments and result
    comp,              \* a call of render() on bitmaps: files, opened bitmaps, composed image
    cache,             \* CACHE_DIR and the calls of get_cached_wallpaper and sync_wallpapers
    old,               \* a run of the earlier script imagemagick-desktop-maker.py
    procs,             \* the main process and the pool's worker processes: module globals, files
    outFiles,          \* files under args.outdir: path -> wallpaper file it was composed from
    partial,           \* files under args.outdir whose save has begun and not finished
    outDirs,           \* directories under args.outdir: <<motive, imgname>>, and <<>> for the root
    tempdir,           \* TEMPDIR exists
    tempFiles,         \* files in TEMPDIR: name -> source file it was made from
    pc,                \* position of main
    run,               \* which run of the script this is
    failed,            \* an exception has been raised in this run
    missing,           \* the work index
    motive,            \* main's local variable `motive` (<<>> while unbound)
    masklist,
    effectlist,
    effect_paths,      \* keys of effect_paths of the current wallpaper
    walIdx,            \* position of the current loop over wallpapers
    pool,              \* main's local `pool`: "unbound", "none", "open", "closed"
    stage,             \* which function the pool maps: "none", "mask", "effect", "render"
    tasks,             \* tasks of the current imap_unordered call: task -> status
    delete_temps,
    SELECTED_COLORS,
    dispatchedMask,    \* history: tasks handed to the pool in this run
    dispatchedEffect,
    dispatchedRender,
    rasterized,        \* history: create_mask_temps tasks that invoked cairosvg.svg2png
    transformed,       \* history: effect tasks that invoked their create_* method
    written,           \* history: output path -> number of times it was saved in this run
    returned           \* history: tasks of this run that have returned or raised

\* the variables of the unit specifications (<<>> in a run of main)
units == <<probe, chunk, comp, cache, old, procs>>

inputs == <<walDir, svgDir, effectsArg, colorsArg, outRootExisted, units>>

disk == <<outFiles, partial, outDirs, tempdir, tempFiles>>

locals == <<missing, motive, masklist, effectlist, effect_paths, walIdx, delete_temps, SELECTED_COLORS>>

history == <<dispatchedMask, dispatchedEffect, dispatchedRender, rasterized, transformed, written>>

vars == <<inputs, disk, pc, run, failed, locals, pool, stage, tasks, history, returned>>

NoUnits == probe = <<>> /\ chunk = <<>> /\ comp = <<>> /\ cache = <<>> /\ old = <<>> /\ procs = <<>>

OldFile == <<"old", "">>

NoTasks == [t \in {} |-> "queued"]

NoFiles == [p \in {} |-> OldFile]

NoWrites == [p \in {} |-> 0]

AddFile(files, name, content) == [p \in DOMAIN files \cup {name} |-> IF p = name THEN content ELSE files[p]]

\* os.path.exists(out)
OutExists(out) == out \in DOMAIN outFiles

TempExists(name) == tempdir /\ name \in DOMAIN tempFiles

(***************************************************************************)
(* The missing-work scan of main.                                          *)
(***************************************************************************)
styles == SortedStyles(dynamic_styles(effectsArg, colorsArg))

\* mutant of ScanAppend: the scan appends without the membership test
ScanAppendAlways(acc, style) == Append(acc, style)

\* if style not in missing[imgfilename][motivefile]: append
ScanAppend(acc, style) == IF ~InSeq(style, acc) THEN Append(acc, style) ELSE acc

RECURSIVE MissingStyles(_, _, _, _, _)
MissingStyles(stylelist, i, motivefile, imgfilename, acc) ==
    IF i > Len(stylelist) THEN acc
    ELSE LET out == OutPath(motivefile[1], imgfilename[1], stylelist[i]) IN
         MissingStyles(stylelist, i + 1, motivefile, imgfilename,
                       IF ~OutExists(out) THEN ScanAppend(acc, stylelist[i]) ELSE acc)

ScanMissing ==
    LET lst(img, mf) == MissingStyles(styles, 1, mf, img, <<>>)
        mfs(img) == {mf \in svgDir : lst(img, mf) # <<>>}
        imgs == {img \in walDir : img[2] \in SupportedExt /\ mfs(img) # {}}
    IN [img \in imgs |-> [mf \in mfs(img) |-> lst(img, mf)]]

\* keys of `missing` (and of effectlist) in insertion order
WalOrder == SortedListing(AllWallpapers, DOMAIN missing)

\* keys of missing[img] in insertion order
MotiveOrder(img) == SortedListing(AllMasks, DOMAIN missing[img])

\* need_style of the planning loop, for one wallpaper
need_style(img) == UNION {Range(missing[img][mf]) : mf \in DOMAIN missing[img]}

(***************************************************************************)
(* Inputs of a run.                                                        *)
(***************************************************************************)
ArgLists(S, max) == UNION {[1..n -> S] : n \in 1..max}

\* contents of the wallpaper directory: empty, one file, two files of one
\* size, two files of different sizes, two files of one base name, and
\* files with an unsupported extension
WallpaperDirs ==
    { {}, {<<"a", ".jpg">>}, {<<"a", ".jpg">>, <<"b", ".jpg">>}, {<<"a", ".png">>, <<"b", ".jpg">>},
      {<<"a", ".jpg">>, <<"a", ".png">>}, {<<"b", ".jpg">>, <<"c", ".txt">>}, {<<"c", ".txt">>} }

\* contents of the masks directory: empty, one file, two masks, and two
\* files of one base name
MaskDirs ==
    { {}, {<<"m", ".svg">>}, {<<"m", ".svg">>, <<"n", ".svg">>}, {<<"m", ".SVG">>, <<"m", ".svg">>} }

PathsOf(wd, sd, st) == {OutPath(mf[1], img[1], s) : mf \in sd, img \in wd, s \in Range(st)}

Present(paths) == {P \in SUBSET paths : Cardinality(P) <= MaxPresent}

\* --effects of the runs on several files: one effect with and without an
\* effect file, two effects out of order, a repeated effect
NarrowArgs == { <<"Flip">>, <<"ThroughBlack">>, <<"ThroughBlack", "Flip">>, <<"Flip", "Flip">> }

\* --colors: one color, two colors out of order, a repeated color
ColorArgs == { <<"Black">>, <<"White", "Black">>, <<"Black", "Black">> }

\* directories of several wallpapers and masks, few effects
InitDirs ==
    /\ walDir \in WallpaperDirs
    /\ svgDir \in MaskDirs
    /\ effectsArg \in NarrowArgs
    /\ colorsArg = <<"Black">>

\* one wallpaper and one mask, every effect and color of the command line
InitArgs ==
    /\ walDir = {<<"a", ".jpg">>}
    /\ svgDir = {<<"m", ".svg">>}
    /\ effectsArg \in ArgLists(all_effects, MaxWideArgs)
    /\ colorsArg \in ColorArgs

\* the state of a process after the module is loaded (TEMPDIR = mkdtemp())
Loaded ==
    /\ tempdir = TRUE
    /\ tempFiles = NoFiles
    /\ pc = "loaded"
    /\ failed = FALSE
    /\ missing = <<>>
    /\ motive = <<>>
    /\ masklist = {}
    /\ effectlist = <<>>
    /\ effect_paths = {}
    /\ walIdx = 1
    /\ pool = "unbound"
    /\ stage = "none"
    /\ tasks = NoTasks
    /\ delete_temps = {}
    /\ SELECTED_COLORS = <<>>
    /\ dispatchedMask = {}
    /\ dispatchedEffect = {}
    /\ dispatchedRender = {}
    /\ rasterized = {}
    /\ transformed = {}
    /\ written = NoWrites
    /\ returned = {}

\* the directories os.makedirs(os.path.join(args.outdir, motive, imgname)) makes
OutDirsOf(pairs) == IF pairs = {} THEN {} ELSE pairs \cup {<<>>}

Init ==
    /\ InitDirs \/ InitArgs
    /\ \E P \in Present(PathsOf(walDir, svgDir, dynamic_styles(effectsArg, colorsArg))) :
          /\ outFiles = [p \in P |-> OldFile]
          /\ outRootExisted \in (IF P = {} THEN BOOLEAN ELSE {TRUE})
          /\ outDirs = OutDirsOf({<<p[1], p[2]>> : p \in P}) \cup (IF outRootExisted THEN {<<>>} ELSE {})
    /\ partial = {}
    /\ NoUnits
    /\ run = 1
    /\ Loaded

(***************************************************************************)
(* main, before the try block.                                             *)
(***************************************************************************)
\* parse_arguments(): argparse ends the process (SystemExit) on --help and on
\* an invalid choice
ParseArguments ==
    /\ pc = "loaded"
    /\ \/ pc' = "parsed"
       \/ pc' = "exited"
    /\ UNCHANGED <<inputs, disk, run, failed, locals, pool, stage, tasks, history, returned>>

\* set_perf_cores_only(), dynamic_styles, SELECTED_COLORS, sync_wallpapers():
\* both calls catch every Exception themselves
Setup ==
    /\ pc = "parsed"
    /\ SELECTED_COLORS' = [c \in Range(colorsArg) |-> ALL_COLORS_DICT[c]]
    /\ pc' = "try"
    /\ UNCHANGED <<inputs, disk, run, failed, missing, motive, masklist, effectlist,
                   effect_paths, walIdx, delete_temps, pool, stage, tasks, history, returned>>

(***************************************************************************)
(* main, the try block: scan and planning loop.                            *)
(***************************************************************************)
\* an exception leaves the try block for the finally clause
Raise ==
    /\ failed' = TRUE
    /\ pc' = "finally"

\* os.listdir() .. pool = None; os.listdir raises on an unreadable directory
Scan ==
    /\ pc = "try"
    /\ \/ /\ missing' = ScanMissing
          /\ pool' = "none"
          /\ walIdx' = 1
          /\ pc' = "plan"
          /\ UNCHANGED failed
       \/ /\ Raise
          /\ UNCHANGED <<missing, pool, walIdx>>
    /\ UNCHANGED <<inputs, disk, run, motive, masklist, effectlist, effect_paths,
                   delete_temps, SELECTED_COLORS, stage, tasks, history, returned>>

\* os.makedirs(..., exist_ok=True) for every mask of the wallpaper's entry
\* mutant of MadeDirs: the planning loop makes no directory
MadeDirsNone(imgfilename, order) == {}

MadeDirs(imgfilename, order) == OutDirsOf({<<order[i][1], imgfilename[1]>> : i \in 1..Len(order)})

\* one iteration of `for imgfilename, v in missing.items()`;
\* get_cached_wallpaper and Image.open raise on an unreadable or corrupt file
PlanWallpaper ==
    /\ pc = "plan"
    /\ walIdx <= Len(WalOrder)
    /\ LET imgfilename == WalOrder[walIdx]
           order == MotiveOrder(imgfilename)
       IN \/ /\ motive' = order[Len(order)][1]
             /\ masklist' = masklist \cup {<<mf, WalSize(imgfilename)>> : mf \in Range(order)}
             /\ outDirs' = outDirs \cup MadeDirs(imgfilename, order)
             /\ effectlist' = AddFile(effectlist, imgfilename,
                                      SelectSeq(AllStylesSorted, LAMBDA s : s \in need_style(imgfilename)))
             /\ walIdx' = walIdx + 1
             /\ UNCHANGED <<pc, failed>>
          \/ /\ Raise
             /\ UNCHANGED <<motive, masklist, outDirs, effectlist, walIdx>>
    /\ UNCHANGED <<inputs, outFiles, partial, tempdir, tempFiles, run, missing, effect_paths,
                   delete_temps, SELECTED_COLORS, pool, stage, tasks, history, returned>>

\* pool = Pool(processes=workers); pool.imap_unordered(create_mask_temps, masklist)
CreatePool ==
    /\ pc = "plan"
    /\ walIdx > Len(WalOrder)
    /\ pool' = "open"
    /\ stage' = "mask"
    /\ tasks' = [t \in masklist |-> "queued"]
    /\ dispatchedMask' = dispatchedMask \cup masklist
    /\ pc' = "mask_stage"
    /\ UNCHANGED <<inputs, disk, run, failed, locals, dispatchedEffect, dispatchedRender,
                   rasterized, transformed, written, returned>>

(***************************************************************************)
(* The pool: workers take queued tasks of the running imap_unordered call. *)
(* The chunk size main computes is 1 for every task list of the model      *)
(* (ChunksAreSingleTasks), so a worker dispatch is one task.               *)
(***************************************************************************)
Terminal == {"done", "failed"}

Busy == {t \in DOMAIN tasks : tasks[t] \notin Terminal \cup {"queued"}}

PoolRuns == pool = "open" /\ pc \in {"mask_stage", "effect_stage", "render_stage", "finally"}

CanStart(t) == PoolRuns /\ tasks[t] = "queued" /\ Cardinality(Busy) < workers

\* the task moves on; a task that returns or raises is recorded
Set(t, status) ==
    /\ tasks' = [tasks EXCEPT ![t] = status]
    /\ returned' = IF status \in Terminal THEN returned \cup {t} ELSE returned

\* mutant of MaskCached: the existence test never finds the mask file
MaskCachedNever(t) == FALSE

\* os.path.exists(os.path.join(TEMPDIR, f"mask_{tmpname}"))
MaskCached(t) == TempExists(MaskTemp("mask", t[1][1], t[2]))

\* os.path.exists(self.output_path)
EffectCached(t) == TempExists(EffectTemp(t[4], t[2]))

\* create_mask_temps: tmpname and the os.path.exists test
MaskCheck(t) ==
    /\ stage = "mask"
    /\ CanStart(t)
    /\ IF MaskCached(t) THEN Set(t, "done") ELSE Set(t, "svg2png")
    /\ UNCHANGED <<inputs, disk, pc, run, failed, locals, pool, stage, history>>

\* cairosvg.svg2png .. mask.save; the rasterizer may raise
MaskRasterize(t) ==
    /\ stage = "mask"
    /\ PoolRuns
    /\ tasks[t] = "svg2png"
    /\ rasterized' = rasterized \cup {t}
    /\ \/ /\ tempFiles' = AddFile(tempFiles, MaskTemp("mask", t[1][1], t[2]), t[1])
          /\ Set(t, "logocolor")
       \/ /\ Set(t, "failed")
          /\ UNCHANGED tempFiles
    /\ UNCHANGED <<inputs, outFiles, partial, outDirs, tempdir, pc, run, failed, locals, pool, stage,
                   dispatchedMask, dispatchedEffect, dispatchedRender, transformed, written>>

\* colored.save(logocolor_...)
MaskSaveLogo(t) ==
    /\ stage = "mask"
    /\ PoolRuns
    /\ tasks[t] = "logocolor"
    /\ tempFiles' = AddFile(tempFiles, MaskTemp("logocolor", t[1][1], t[2]), t[1])
    /\ Set(t, "shadow")
    /\ UNCHANGED <<inputs, outFiles, partial, outDirs, tempdir, pc, run, failed, locals, pool, stage,
                   history>>

\* shadow.save(shadow_...) and return pointers
MaskSaveShadow(t) ==
    /\ stage = "mask"
    /\ PoolRuns
    /\ tasks[t] = "shadow"
    /\ tempFiles' = AddFile(tempFiles, MaskTemp("shadow", t[1][1], t[2]), t[1])
    /\ Set(t, "done")
    /\ UNCHANGED <<inputs, outFiles, partial, outDirs, tempdir, pc, run, failed, locals, pool, stage,
                   history>>

\* EffectCreator.__init__ and the os.path.exists test of execute
EffectCheck(t) ==
    /\ stage = "effect"
    /\ CanStart(t)
    /\ IF EffectCached(t) THEN Set(t, "done") ELSE Set(t, "create")
    /\ UNCHANGED <<inputs, disk, pc, run, failed, locals, pool, stage, history>>

\* the create_* method of the effect: Image.open(walfile) may raise
EffectCreate(t) ==
    /\ stage = "effect"
    /\ PoolRuns
    /\ tasks[t] = "create"
    /\ transformed' = transformed \cup {t}
    /\ \/ /\ tempFiles' = AddFile(tempFiles, EffectTemp(t[4], t[2]), t[1])
          /\ Set(t, "done")
       \/ /\ Set(t, "failed")
          /\ UNCHANGED tempFiles
    /\ UNCHANGED <<inputs, outFiles, partial, outDirs, tempdir, pc, run, failed, locals, pool, stage,
                   dispatchedMask, dispatchedEffect, dispatchedRender, rasterized, written>>

\* Render.switch.get(style, "") after Render.__init__ has added the entries
\* of the colors of `table`, the SELECTED_COLORS of the process that runs it
SwitchGet(table, style) ==
    IF Len(style) = 1
    THEN (IF style[1] \in STYLES THEN style[1] ELSE "")
    ELSE (IF style[2] \in DOMAIN table /\ style[1] \in ColorFamilies THEN style[1] ELSE "")

\* Render.switch as the worker sees it after Render.__init__
RenderMethod(style) == SwitchGet(SELECTED_COLORS, style)

\* the mask-stage files a composition method opens
ReadsMask(method) ==
    IF method \in {"ThroughBlack", "Negate", "InverseNegate", "ColorThrough", "Pixelate", "InversePixelate"}
    THEN {"mask"}
    ELSE IF method = "LogoColors" THEN {"mask", "logocolor"}
    ELSE {"mask", "shadow"}

\* the effect files a composition method opens
ReadsEffect(method) ==
    CASE method = "Blur" -> {"blurred_dark", "brightened"}
      [] method = "InverseBlur" -> {"blurred_dark"}
      [] method = "InverseBlurDarker" -> {"blurred_darker"}
      [] method \in {"Negate", "InverseNegate"} -> {"negated"}
      [] method = "Flip" -> {"flipped"}
      [] method = "ColorOverlayBlur" -> {"blurred"}
      [] method \in {"Pixelate", "InversePixelate"} -> {"pixelated"}
      [] OTHER -> {}

\* the temp files the pointers of a render task name for its method
\* (a pointer effect_paths.get() left "" names no file)
RenderInputs(t) ==
    LET method == RenderMethod(t[2])
    IN {MaskTemp(k, t[4], WalSize(t[1])) : k \in ReadsMask(method)}
       \cup {EffectTemp(e, t[1][1]) : e \in ReadsEffect(method) \cap t[5]}

RenderInputsPresent(t) ==
    /\ ReadsEffect(RenderMethod(t[2])) \subseteq t[5]
    /\ \A f \in RenderInputs(t) : TempExists(f)

\* mutant of RenderWrites: render saves without the existence test
RenderWritesAlways(out) == TRUE

\* Render.render: if not os.path.exists(self.out)
RenderWrites(out) == ~OutExists(out)

RenderCheck(t) ==
    /\ stage = "render"
    /\ CanStart(t)
    /\ IF RenderWrites(t[3]) THEN Set(t, "compose") ELSE Set(t, "done")
    /\ UNCHANGED <<inputs, disk, pc, run, failed, locals, pool, stage, history>>

\* func() and the start of self.img.save(self.out): Image.open of a missing
\* or corrupt input raises, and so does creating the file in a missing
\* directory; save creates the file at self.out and then writes into it
RenderCompose(t) ==
    /\ stage = "render"
    /\ PoolRuns
    /\ tasks[t] = "compose"
    /\ \/ /\ RenderMethod(t[2]) = ""
          /\ Set(t, "done")
          /\ UNCHANGED <<outFiles, partial, written>>
       \/ /\ RenderMethod(t[2]) # ""
          /\ RenderInputsPresent(t)
          /\ <<t[3][1], t[3][2]>> \in outDirs
          /\ outFiles' = AddFile(outFiles, t[3], t[1])
          /\ partial' = partial \cup {t[3]}
          /\ written' = AddFile(written, t[3], IF t[3] \in DOMAIN written THEN written[t[3]] + 1 ELSE 1)
          /\ Set(t, "saving")
       \/ /\ RenderMethod(t[2]) # ""
          /\ Set(t, "failed")
          /\ UNCHANGED <<outFiles, partial, written>>
    /\ UNCHANGED <<inputs, outDirs, tempdir, tempFiles, pc, run, failed, locals, pool, stage,
                   dispatchedMask, dispatchedEffect, dispatchedRender, rasterized, transformed>>

\* the rest of self.img.save(self.out): the file is complete when save
\* returns; a worker that fails or is killed while it saves leaves the file
RenderSaved(t) ==
    /\ stage = "render"
    /\ PoolRuns
    /\ tasks[t] = "saving"
    /\ \/ /\ partial' = partial \ {t[3]}
          /\ Set(t, "done")
       \/ /\ Set(t, "failed")
          /\ UNCHANGED partial
    /\ UNCHANGED <<inputs, outFiles, outDirs, tempdir, tempFiles, pc, run, failed, locals, pool, stage,
                   history>>

(***************************************************************************)
(* main, the stages.  main blocks in the loop over imap_unordered until    *)
(* every result has arrived; a task's exception is re-raised in main.      *)
(***************************************************************************)
\* mutant of AllDone: main goes on while tasks of the batch are still running
NoneFailed == \A t \in DOMAIN tasks : tasks[t] # "failed"

\* the loop over imap_unordered has received the result of every task
AllDone == \A t \in DOMAIN tasks : tasks[t] = "done"

SomeFailed == \E t \in DOMAIN tasks : tasks[t] = "failed"

InStage == pc \in {"mask_stage", "effect_stage", "render_stage"}

StageRaise ==
    /\ InStage
    /\ SomeFailed
    /\ Raise
    /\ UNCHANGED <<inputs, disk, run, locals, pool, stage, tasks, history, returned>>

\* the mask stage has delivered every result
MaskStageDone ==
    /\ pc = "mask_stage"
    /\ AllDone
    /\ walIdx' = 1
    /\ pc' = "effects"
    /\ UNCHANGED <<inputs, disk, run, failed, missing, motive, masklist, effectlist,
                   effect_paths, delete_temps, SELECTED_COLORS, pool, stage, tasks, history,
                   returned>>

\* `for wal in effectlist`: effect_set, effect_tasks_list, imap_unordered
EffectDispatch ==
    /\ pc = "effects"
    /\ walIdx <= Len(WalOrder)
    /\ LET wal == WalOrder[walIdx]
           list == {<<wal, wal[1], WalSize(wal), e>> : e \in effect_set(effectlist[wal])}
       IN /\ tasks' = [t \in list |-> "queued"]
          /\ dispatchedEffect' = dispatchedEffect \cup list
    /\ stage' = "effect"
    /\ pc' = "effect_stage"
    /\ UNCHANGED <<inputs, disk, run, failed, locals, pool, dispatchedMask, dispatchedRender,
                   rasterized, transformed, written, returned>>

\* the render task main builds for one style of styles_list
RenderTask(wal, style, paths) == <<wal, style, OutPath(motive, wal[1], style), motive, paths>>

renderlist(wal, paths) == {RenderTask(wal, effectlist[wal][i], paths) : i \in 1..Len(effectlist[wal])}

\* mutant of EffectPathValues: no effect file is noted for deletion
EffectPathValuesNone(wal, paths) == {}

\* effect_paths.values()
EffectPathValues(wal, paths) == {EffectTemp(e, wal[1]) : e \in paths}

\* effect_paths, renderlist, delete_temps.update, imap_unordered(render, renderlist)
RenderDispatch ==
    /\ pc = "effect_stage"
    /\ AllDone
    /\ LET wal == WalOrder[walIdx]
           paths == {t[4] : t \in DOMAIN tasks}
       IN /\ effect_paths' = paths
          /\ delete_temps' = delete_temps \cup EffectPathValues(wal, paths)
          /\ tasks' = [t \in renderlist(wal, paths) |-> "queued"]
          /\ dispatchedRender' = dispatchedRender \cup renderlist(wal, paths)
    /\ stage' = "render"
    /\ pc' = "render_stage"
    /\ UNCHANGED <<inputs, disk, run, failed, missing, motive, masklist, effectlist, walIdx,
                   SELECTED_COLORS, pool, dispatchedMask, dispatchedEffect, rasterized, transformed,
                   written, returned>>

\* the render stage has delivered every result: remove delete_temps
DeleteTemps ==
    /\ pc = "render_stage"
    /\ AllDone
    /\ tempFiles' = [f \in DOMAIN tempFiles \ delete_temps |-> tempFiles[f]]
    /\ delete_temps' = {}
    /\ walIdx' = walIdx + 1
    /\ pc' = "effects"
    /\ UNCHANGED <<inputs, outFiles, partial, outDirs, tempdir, run, failed, missing, motive, masklist,
                   effectlist, effect_paths, SELECTED_COLORS, pool, stage, tasks, history,
                   returned>>

\* the loop over effectlist is exhausted: the try block ends
EndTry ==
    /\ pc = "effects"
    /\ walIdx > Len(WalOrder)
    /\ pc' = "finally"
    /\ UNCHANGED <<inputs, disk, run, failed, locals, pool, stage, tasks, history, returned>>

\* the chunksize main passes to imap_unordered for the current task list
ChunksAreSingleTasks == compute_chunksize(Cardinality(DOMAIN tasks), <<workers>>) = 1

\* finally: pool.close(); pool.join() (any Exception of these, also the
\* UnboundLocalError of an unbound `pool`, is swallowed); shutil.rmtree(TEMPDIR).
\* join returns when the workers have finished every task handed to the pool.
\* mutant of FinallyRmtree: the error of the unbound `pool` skips rmtree
FinallyRmtreeIfPoolBound ==
    IF pool = "unbound"
    THEN UNCHANGED <<tempdir, tempFiles>>
    ELSE tempdir' = FALSE /\ tempFiles' = NoFiles

FinallyRmtree == /\ tempdir' = FALSE
                 /\ tempFiles' = NoFiles

\* mutant of Finally: the temp directory is removed without pool.join()
FinallyNoJoin ==
    /\ pc = "finally"
    /\ pool' = IF pool = "open" THEN "closed" ELSE pool
    /\ FinallyRmtree
    /\ pc' = "done"
    /\ UNCHANGED <<inputs, outFiles, partial, outDirs, run, failed, locals, stage, tasks, history,
                   returned>>

Finally ==
    /\ pc = "finally"
    /\ pool = "open" => \A t \in DOMAIN tasks : tasks[t] \in Terminal
    /\ pool' = IF pool = "open" THEN "closed" ELSE pool
    /\ FinallyRmtree
    /\ pc' = "done"
    /\ UNCHANGED <<inputs, outFiles, partial, outDirs, run, failed, locals, stage, tasks, history,
                   returned>>

\* the script is started again on the same directories and arguments
NextRun ==
    /\ pc = "done"
    /\ ~failed
    /\ run < MaxRuns
    /\ run' = run + 1
    /\ tempdir' = TRUE
    /\ tempFiles' = NoFiles
    /\ pc' = "loaded"
    /\ failed' = FALSE
    /\ missing' = <<>>
    /\ motive' = <<>>
    /\ masklist' = {}
    /\ effectlist' = <<>>
    /\ effect_paths' = {}
    /\ walIdx' = 1
    /\ pool' = "unbound"
    /\ stage' = "none"
    /\ tasks' = NoTasks
    /\ delete_temps' = {}
    /\ SELECTED_COLORS' = <<>>
    /\ dispatchedMask' = {}
    /\ dispatchedEffect' = {}
    /\ dispatchedRender' = {}
    /\ rasterized' = {}
    /\ transformed' = {}
    /\ written' = NoWrites
    /\ returned' = {}
    /\ UNCHANGED <<inputs, outFiles, partial, outDirs>>

Worker ==
    \E t \in DOMAIN tasks :
        \/ MaskCheck(t)
        \/ MaskRasterize(t)
        \/ MaskSaveLogo(t)
        \/ MaskSaveShadow(t)
        \/ EffectCheck(t)
        \/ EffectCreate(t)
        \/ RenderCheck(t)
        \/ RenderCompose(t)
        \/ RenderSaved(t)

Next ==
    \/ ParseArguments
    \/ Setup
    \/ Scan
    \/ PlanWallpaper
    \/ CreatePool
    \/ Worker
    \/ StageRaise
    \/ MaskStageDone
    \/ EffectDispatch
    \/ RenderDispatch
    \/ DeleteTemps
    \/ EndTry
    \/ Finally
    \/ NextRun

Spec == Init /\ [][Next]_vars

(***************************************************************************)
(* Calls of the task functions one after another on one TEMPDIR, as a pool *)
(* runs them: create_mask_temps, create_single_effect and render.          *)
(***************************************************************************)
\* main's locals and the histories, untouched
Unused ==
    /\ failed = FALSE
    /\ missing = <<>>
    /\ motive = <<>>
    /\ masklist = {}
    /\ effectlist = <<>>
    /\ effect_paths = {}
    /\ walIdx = 1
    /\ delete_temps = {}
    /\ SELECTED_COLORS = <<>>
    /\ dispatchedMask = {}
    /\ dispatchedEffect = {}
    /\ dispatchedRender = {}
    /\ rasterized = {}
    /\ transformed = {}
    /\ written = NoWrites
    /\ returned = {}

NoInputs ==
    /\ walDir = {}
    /\ svgDir = {}
    /\ effectsArg = <<"Flip">>
    /\ colorsArg = <<"Black">>
    /\ outRootExisted = TRUE
    /\ outFiles = NoFiles
    /\ partial = {}
    /\ run = 1

\* arguments of create_mask_temps: (svg, size)
MaskCalls ==
    { << <<"m", ".SVG">>, <<16, 9>> >>, << <<"m", ".svg">>, <<16, 9>> >>, << <<"m", ".svg">>, <<4, 3>> >> }

\* arguments of create_single_effect: (walfile, walname, walsize, effect)
EffectCalls ==
    { << <<"a", ".jpg">>, "a", <<16, 9>>, "flipped" >>, << <<"a", ".png">>, "a", <<4, 3>>, "flipped" >>,
      << <<"a", ".jpg">>, "a", <<16, 9>>, "blurred_dark" >> }

\* arguments of render: (pointers, style, out), with the wallpaper and the
\* mask name the pointers are built from
RenderCalls ==
    { << <<"a", ".jpg">>, <<"ThroughBlack">>, OutPath("m", "a", <<"ThroughBlack">>), "m", {} >>,
      << <<"a", ".jpg">>, <<"Flip">>, OutPath("m", "a", <<"Flip">>), "m", {"flipped"} >> }

CallInit ==
    /\ NoInputs
    /\ Unused
    /\ outDirs = {<<>>, <<"m", "a">>}
    /\ NoUnits
    /\ tempdir = TRUE
    /\ tempFiles = NoFiles
    /\ pool = "open"
    /\ pc = "mask_stage"
    /\ stage = "mask"
    /\ tasks = NoTasks

\* the previous call has returned or raised
CallOver == pool = "open" /\ \A t \in DOMAIN tasks : tasks[t] \in Terminal

CallMask ==
    /\ CallOver
    /\ \E t \in MaskCalls :
          /\ tasks' = [x \in {t} |-> "queued"]
          /\ dispatchedMask' = dispatchedMask \cup {t}
    /\ stage' = "mask"
    /\ pc' = "mask_stage"
    /\ UNCHANGED <<inputs, disk, run, failed, locals, pool, dispatchedEffect, dispatchedRender,
                   rasterized, transformed, written, returned>>

CallEffect ==
    /\ CallOver
    /\ \E t \in EffectCalls :
          /\ tasks' = [x \in {t} |-> "queued"]
          /\ dispatchedEffect' = dispatchedEffect \cup {t}
    /\ stage' = "effect"
    /\ pc' = "effect_stage"
    /\ UNCHANGED <<inputs, disk, run, failed, locals, pool, dispatchedMask, dispatchedRender,
                   rasterized, transformed, written, returned>>

CallRender ==
    /\ CallOver
    /\ \E t \in RenderCalls :
          /\ tasks' = [x \in {t} |-> "queued"]
          /\ dispatchedRender' = dispatchedRender \cup {t}
    /\ stage' = "render"
    /\ pc' = "render_stage"
    /\ UNCHANGED <<inputs, disk, run, failed, locals, pool, dispatchedMask, dispatchedEffect,
                   rasterized, transformed, written, returned>>

CallNext ==
    \/ CallMask
    \/ CallEffect
    \/ CallRender
    \/ Worker

CallSpec == CallInit /\ [][CallNext]_vars

(***************************************************************************)
(* The naming functions applied to two keys at a time.                     *)
(***************************************************************************)
MaskKinds == {"mask", "shadow", "logocolor"}

EffectKinds == {"blurred", "blurred_dark", "blurred_darker", "brightened", "flipped", "negated", "pixelated"}

\* names of mask files and of wallpaper files, without extension
MaskNames == {"m", "n", "m_4x3"}

WalNames == {"a", "dark_a", "darker_a"}

Sizes == {<<16, 9>>, <<4, 3>>, <<1, 1>>}

\* the ten base styles and every family/color style over the palette
AllStyles == {<<st>> : st \in STYLES} \cup (ColorFamilies \X Palette)

NameInit ==
    /\ NoInputs
    /\ Unused
    /\ outDirs = {<<>>}
    /\ NoUnits
    /\ tempdir = TRUE
    /\ tempFiles = NoFiles
    /\ pool = "unbound"
    /\ pc = "loaded"
    /\ stage = "none"
    /\ tasks = NoTasks

Rest == <<walDir, svgDir, effectsArg, colorsArg, outRootExisted, disk, pc, run, failed, locals,
          pool, stage, tasks, history, returned>>

\* create_mask_temps: the file names of two keys
ProbeMask ==
    /\ probe = <<>>
    /\ \E k1, k2 \in MaskKinds \X MaskNames \X Sizes :
          probe' = <<"mask", k1, k2, MaskTemp(k1[1], k1[2], k1[3]), MaskTemp(k2[1], k2[2], k2[3])>>
    /\ UNCHANGED <<Rest, chunk, comp, cache, old, procs>>

\* EffectCreator.__init__: the output_path of two keys
ProbeEffect ==
    /\ probe = <<>>
    /\ \E k1, k2 \in EffectKinds \X WalNames :
          probe' = <<"effect", k1, k2, EffectTemp(k1[1], k1[2]), EffectTemp(k2[1], k2[2])>>
    /\ UNCHANGED <<Rest, chunk, comp, cache, old, procs>>

\* main: the output path of two (wallpaper name, mask name, style) triples
ProbeOut ==
    /\ probe = <<>>
    /\ \E k1, k2 \in {"a", "dark_a"} \X {"m", "n"} \X AllStyles :
          probe' = <<"out", k1, k2, OutPath(k1[2], k1[1], k1[3]), OutPath(k2[2], k2[1], k2[3])>>
    /\ UNCHANGED <<Rest, chunk, comp, cache, old, procs>>

ProbeDone ==
    /\ probe # <<>>
    /\ probe' = <<>>
    /\ UNCHANGED <<Rest, chunk, comp, cache, old, procs>>

NameNext ==
    \/ ProbeMask
    \/ ProbeEffect
    \/ ProbeOut
    \/ ProbeDone

NameSpec == NameInit /\ [][NameNext]_vars

(***************************************************************************)
(* One call of render() on bitmaps.  A bitmap is a record of its mode, its *)
(* size <<width, height>> and its pixels: <<r, g, b>> in mode RGB,         *)
(* <<r, g, b, a>> in mode RGBA and one number in mode L.  The files are    *)
(* the ones the TempImagePointers of the task name, and the output.        *)
(***************************************************************************)
\* mutant of BLEND8: the two images exchanged
BLEND8Swapped(alpha, in1, in2) ==
    LET tmp == in1 * alpha + in2 * (255 - alpha) + 128 IN ((tmp \div 256) + tmp) \div 256

\* PIL: one channel of a paste through a mask value, the division by 255
\* rounded
BLEND8(alpha, in1, in2) ==
    LET tmp == in1 * (255 - alpha) + in2 * alpha + 128 IN ((tmp \div 256) + tmp) \div 256

\* PIL ImageColor.getrgb of "#rrggbb"; Image.new leaves the image zeroed for None
getrgb(color) ==
    IF color = <<>> THEN <<0, 0, 0>>
    ELSE <<16 * color[2] + color[3], 16 * color[4] + color[5], 16 * color[6] + color[7]>>

\* Image.new("RGB", size, color)
New(size, color) == [mode |-> "RGB", size |-> size, px |-> [i \in 1..(size[1] * size[2]) |-> getrgb(color)]]

\* im.paste(src, mask=mask): the pasted image is converted to the mode of im
Paste(im, src, mask) ==
    [im EXCEPT !.px = [i \in 1..Len(im.px) |->
        [ch \in 1..3 |-> BLEND8(mask.px[i][4], im.px[i][ch], src.px[i][ch])]]]

\* ImageChops.multiply(a, b)
Multiply(a, b) ==
    [a EXCEPT !.px = [i \in 1..Len(a.px) |-> [ch \in 1..3 |-> (a.px[i][ch] * b.px[i][ch]) \div 255]]]

\* mask.convert("L"): ITU-R 601-2 luma of the color channels (color_through
\* then replaces the pixels by trans.putdata of the data of mask.getdata(3))
ConvertL(mask) ==
    [mode |-> "L", size |-> mask.size,
     px |-> [i \in 1..Len(mask.px) |->
        (mask.px[i][1] * 19595 + mask.px[i][2] * 38470 + mask.px[i][3] * 7471 + 32768) \div 65536]]

\* mask.putalpha(trans)
PutAlpha(mask, trans) ==
    [mask EXCEPT !.px = [i \in 1..Len(mask.px) |-> <<mask.px[i][1], mask.px[i][2], mask.px[i][3], trans.px[i]>>]]

\* color_through: max(item, 127) for item in data
RaisedAlpha(data) == [i \in 1..Len(data) |-> IF data[i] > 127 THEN data[i] ELSE 127]

\* the style string "family/color" as words, and the three prefixes
StyleString(style) == IF Len(style) = 1 THEN Tok(style[1]) ELSE Tok(style[1]) \o <<"/", style[2]>>

removeprefix(s, prefix) ==
    IF Len(s) >= Len(prefix) /\ SubSeq(s, 1, Len(prefix)) = prefix
    THEN SubSeq(s, Len(prefix) + 1, Len(s))
    ELSE s

\* mutant of StyleColor: only the first prefix is removed
StyleColorFirstPrefix(style) == removeprefix(StyleString(style), Tok("ColorOverlay") \o <<"/">>)

\* render: color = style.removeprefix(...).removeprefix(...).removeprefix(...)
StyleColor(style) ==
    removeprefix(removeprefix(removeprefix(StyleString(style),
        Tok("ColorOverlay") \o <<"/">>), Tok("ColorOverlayBlur") \o <<"/">>), Tok("ColorThrough") \o <<"/">>)

\* the files a method opens: the pointer fields of its Image.open calls
Opens(method) ==
    ReadsMask(method) \cup ReadsEffect(method)
    \cup (IF method \in {"Blur", "ColorOverlayBlur"} THEN {} ELSE {"wal"})

\* the method functions of Render: the composed image, and the opened mask
\* and wallpaper bitmaps as the method leaves them in memory
Func(method, f, color) ==
    CASE method = "ThroughBlack" ->
            [img |-> Paste(New(f["wal"].size, <<"#", 0, 0, 0, 0, 0, 0>>), f["wal"], f["mask"]),
             mask |-> f["mask"], wal |-> f["wal"]]
      [] method = "Blur" ->
            [img |-> Paste(Multiply(f["blurred_dark"], f["shadow"]), f["brightened"], f["mask"]),
             mask |-> f["mask"], wal |-> <<>>]
      [] method = "InverseBlur" ->
            [img |-> Paste(Multiply(f["wal"], f["shadow"]), f["blurred_dark"], f["mask"]),
             mask |-> f["mask"], wal |-> f["wal"]]
      [] method = "InverseBlurDarker" ->
            [img |-> Paste(Multiply(f["wal"], f["shadow"]), f["blurred_darker"], f["mask"]),
             mask |-> f["mask"], wal |-> f["wal"]]
      [] method = "Negate" ->
            [img |-> Paste(f["wal"], f["negated"], f["mask"]),
             mask |-> f["mask"], wal |-> Paste(f["wal"], f["negated"], f["mask"])]
      [] method = "InverseNegate" ->
            [img |-> Paste(f["negated"], f["wal"], f["mask"]),
             mask |-> f["mask"], wal |-> f["wal"]]
      [] method = "Flip" ->
            [img |-> Paste(Multiply(f["wal"], f["shadow"]), f["flipped"], f["mask"]),
             mask |-> f["mask"], wal |-> f["wal"]]
      [] method = "ColorOverlay" ->
            [img |-> Paste(Multiply(f["wal"], f["shadow"]), New(f["wal"].size, color), f["mask"]),
             mask |-> f["mask"], wal |-> f["wal"]]
      [] method = "ColorOverlayBlur" ->
            [img |-> Paste(Multiply(f["blurred"], f["shadow"]), New(f["blurred"].size, color), f["mask"]),
             mask |-> f["mask"], wal |-> <<>>]
      [] method = "ColorThrough" ->
            LET data == [i \in 1..Len(f["mask"].px) |-> f["mask"].px[i][4]]
                trans == [ConvertL(f["mask"]) EXCEPT !.px = RaisedAlpha(data)]
                mask == PutAlpha(f["mask"], trans)
            IN [img |-> Paste(New(f["wal"].size, color), f["wal"], mask),
                mask |-> mask, wal |-> f["wal"]]
      [] method = "Pixelate" ->
            [img |-> Paste(f["pixelated"], f["wal"], f["mask"]),
             mask |-> f["mask"], wal |-> f["wal"]]
      [] method = "InversePixelate" ->
            [img |-> Paste(f["wal"], f["pixelated"], f["mask"]),
             mask |-> f["mask"], wal |-> Paste(f["wal"], f["pixelated"], f["mask"])]
      [] method = "LogoColors" ->
            [img |-> Paste(f["wal"], f["logocolor"], f["mask"]),
             mask |-> f["mask"], wal |-> Paste(f["wal"], f["logocolor"], f["mask"])]

\* mutant of SavePath: the image is saved over the opened wallpaper file
SavePathWal(c) == "wal"

\* self.img.save(self.out, ...): the path the image is written to
SavePath(c) == "out"

\* the bitmaps of the model: wallpapers, masks (black shapes of every alpha
\* pattern), and the grey images that stand for shadows and effect files
Bitmaps(mode, size, pixels) ==
    {[mode |-> mode, size |-> size, px |-> p] : p \in [1..(size[1] * size[2]) -> pixels]}

FileBitmaps(name, size) ==
    CASE name = "wal" -> Bitmaps("RGB", size, {<<10, 20, 30>>, <<200, 100, 50>>})
      [] name = "mask" -> Bitmaps("RGBA", size, {<<0, 0, 0, a>> : a \in {0, 100, 127, 128, 255}})
      [] name = "logocolor" -> Bitmaps("RGBA", size, {<<15, 148, 210, 255>>})
      [] name = "shadow" -> Bitmaps("RGB", size, {<<255, 255, 255>>, <<128, 128, 128>>})
      [] OTHER -> Bitmaps("RGB", size, {<<90, 90, 90>>})

CompInit ==
    /\ walDir = {}
    /\ svgDir = {}
    /\ effectsArg = <<"Flip">>
    /\ colorsArg \in {<<"Black">>, <<"White", "ArchBlue">>}
    /\ outRootExisted = TRUE
    /\ outFiles = NoFiles
    /\ partial = {}
    /\ run = 1
    /\ failed = FALSE
    /\ missing = <<>>
    /\ motive = <<>>
    /\ masklist = {}
    /\ effectlist = <<>>
    /\ effect_paths = {}
    /\ walIdx = 1
    /\ delete_temps = {}
    /\ SELECTED_COLORS = [c \in Range(colorsArg) |-> ALL_COLORS_DICT[c]]
    /\ dispatchedMask = {} /\ dispatchedEffect = {} /\ dispatchedRender = {}
    /\ rasterized = {} /\ transformed = {} /\ written = NoWrites /\ returned = {}
    /\ outDirs = {<<>>}
    /\ tempdir = TRUE
    /\ tempFiles = NoFiles
    /\ pool = "open"
    /\ pc = "render_stage"
    /\ stage = "render"
    /\ tasks = NoTasks
    /\ probe = <<>> /\ chunk = <<>> /\ cache = <<>> /\ old = <<>> /\ procs = <<>>
    /\ \E style \in {<<st>> : st \in STYLES} \cup (ColorFamilies \X {"Black", "White", "ArchBlue"}),
          size \in {<<n, 1>> : n \in 1..Width}, before \in BOOLEAN :
          LET names == Opens(RenderMethod(style)) \cup {"mask", "wal"}
          IN \E m \in FileBitmaps("mask", size), w \in FileBitmaps("wal", size),
                s \in FileBitmaps("shadow", size), e \in FileBitmaps("flipped", size),
                l \in FileBitmaps("logocolor", size) :
                LET f == [n \in names |->
                            CASE n = "mask" -> m [] n = "wal" -> w [] n = "shadow" -> s
                              [] n = "logocolor" -> l [] OTHER -> e]
                IN comp = [style |-> style,
                           files |-> IF before
                                     THEN [n \in names \cup {"out"} |-> IF n = "out" THEN OldFile ELSE f[n]]
                                     ELSE f,
                           color |-> <<>>, name |-> <<>>, opened |-> <<>>, img |-> <<>>, pc |-> "call"]

\* render and Render.render up to func: the color of the style
\* (SELECTED_COLORS.get(color, None)), the existence test of the output and
\* the method of the style
CompRender ==
    /\ comp.pc = "call"
    /\ comp' = [comp EXCEPT !.name = StyleColor(comp.style),
                            !.color = LET name == StyleColor(comp.style)
                                      IN IF Len(name) = 1 /\ name[1] \in DOMAIN SELECTED_COLORS
                                         THEN SELECTED_COLORS[name[1]] ELSE <<>>,
                            !.pc = IF "out" \in DOMAIN comp.files \/ RenderMethod(comp.style) = ""
                                   THEN "returned" ELSE "func"]
    /\ UNCHANGED <<Rest, probe, chunk, cache, old, procs>>

\* func(): Image.open of each file of the method, and the composition
CompFunc ==
    /\ comp.pc = "func"
    /\ LET method == RenderMethod(comp.style)
       IN IF Opens(method) \subseteq DOMAIN comp.files
          THEN LET r == Func(method, comp.files, comp.color)
               IN comp' = [comp EXCEPT !.img = r.img, !.opened = [mask |-> r.mask, wal |-> r.wal],
                                       !.pc = "save"]
          ELSE comp' = [comp EXCEPT !.pc = "raised"]
    /\ UNCHANGED <<Rest, probe, chunk, cache, old, procs>>

\* self.img.save(self.out, format="JPEG", ...)
CompSave ==
    /\ comp.pc = "save"
    /\ comp' = [comp EXCEPT !.files = AddFile(comp.files, SavePath(comp),
                                              [format |-> "JPEG", quality |-> 95, of |-> comp.img]),
                            !.pc = "returned"]
    /\ UNCHANGED <<Rest, probe, chunk, cache, old, procs>>

CompSpec == CompInit /\ [][CompRender \/ CompFunc \/ CompSave]_vars

(***************************************************************************)
(* The source cache: sync_wallpapers and the calls of get_cached_wallpaper *)
(* main makes, on one wallpaper directory and CACHE_DIR.  A file is a      *)
(* record of its size and its mtime in tenths of a second (the file as it  *)
(* was copied: the record of the source file it is a copy of).             *)
(***************************************************************************)
FileVersions == {[size |-> 1, mtime |-> 10], [size |-> 1, mtime |-> 15],
                 [size |-> 2, mtime |-> 10], [size |-> 1, mtime |-> 25]}

\* get_cached_wallpaper: the cached file exists and matches size and
\* int(st_mtime)
Revalidated(dir, name, src, stat) ==
    /\ name \in DOMAIN dir
    /\ stat = "ok"
    /\ src.size = dir[name].size
    /\ src.mtime \div 10 = dir[name].mtime \div 10

\* rsync -a --update src CACHE_DIR: a file that is newer in CACHE_DIR is kept
Rsync(dir, name, src) ==
    IF name \in DOMAIN dir /\ dir[name].mtime > src.mtime THEN dir ELSE AddFile(dir, name, src)

\* the outcomes of the system calls of one call: os.stat(src_path),
\* rsync and shutil.copy2; a source that is gone fails all three
Outcomes(present) ==
    IF present
    THEN [stat : {"ok", "OSError"}, rsync : {"ok", "failed"}, copy2 : {"ok", "failed"}]
    ELSE [stat : {"FileNotFoundError"}, rsync : {"failed"}, copy2 : {"failed"}]

\* get_cached_wallpaper(src_path): CACHE_DIR after the call, the calls that
\* copy in the order they were made, and the value returned ("raised" for
\* an exception)
get_cached_wallpaper(dir, name, src, rsync, o) ==
    LET cache_path == <<"CACHE_DIR", name>>
    IN IF name \in DOMAIN dir /\ o.stat = "OSError"
       THEN [dir |-> dir, copies |-> <<>>, result |-> "raised"]
       ELSE IF Revalidated(dir, name, src, o.stat)
       THEN [dir |-> dir, copies |-> <<>>, result |-> cache_path]
       ELSE IF rsync /\ o.rsync = "ok"
       THEN [dir |-> Rsync(dir, name, src), copies |-> <<"rsync">>, result |-> cache_path]
       ELSE LET copies == IF rsync THEN <<"rsync", "copy2">> ELSE <<"copy2">>
            IN IF o.copy2 = "ok"
               THEN [dir |-> AddFile(dir, name, src), copies |-> copies, result |-> cache_path]
               ELSE [dir |-> dir, copies |-> copies, result |-> "raised"]

\* the record of a call, for the properties
CallOf(name, o, r) ==
    [name |-> name, stat |-> o.stat, before |-> cache.dir, copies |-> r.copies, result |-> r.result]

\* rsync -a --update <src_dir>/ CACHE_DIR, file by file
RECURSIVE RsyncAll(_, _, _)
RsyncAll(dir, files, src) ==
    IF files = <<>> THEN dir
    ELSE RsyncAll(IF src[Head(files)].present THEN Rsync(dir, Head(files), src[Head(files)].file) ELSE dir,
                  Tail(files), src)

CacheInit ==
    /\ walDir \in { {<<"a", ".jpg">>, <<"c", ".txt">>}, {<<"a", ".jpg">>, <<"b", ".jpg">>, <<"c", ".txt">>} }
    /\ svgDir = {}
    /\ effectsArg = <<"Flip">>
    /\ colorsArg = <<"Black">>
    /\ outRootExisted = TRUE
    /\ outFiles = NoFiles
    /\ partial = {}
    /\ run = 1
    /\ Unused
    /\ outDirs = {<<>>}
    /\ tempdir = TRUE
    /\ tempFiles = NoFiles
    /\ pool = "unbound"
    /\ pc = "parsed"
    /\ stage = "none"
    /\ tasks = NoTasks
    /\ probe = <<>> /\ chunk = <<>> /\ comp = <<>> /\ old = <<>> /\ procs = <<>>
    /\ \E v \in FileVersions, present \in BOOLEAN, sync \in BOOLEAN, rsync \in BOOLEAN,
          need \in SUBSET {f \in walDir : f[2] \in SupportedExt},
          cached \in {NoFiles} \cup {[n \in {<<"a", ".jpg">>} |-> c] : c \in FileVersions} :
          cache = [src |-> [f \in walDir |->
                              IF f = <<"a", ".jpg">> THEN [file |-> v, present |-> present]
                              ELSE [file |-> [size |-> 3, mtime |-> 10], present |-> TRUE]],
                   dir |-> cached,
                   sync_wallpapers |-> sync,
                   rsync |-> rsync,
                   walk |-> <<>>,
                   missing |-> SortedListing(AllWallpapers, need),
                   call |-> <<>>,
                   pc |-> "start"]

\* main: if args.sync_wallpapers: sync_wallpapers(args.wallpaperdir), up to
\* the loop over the files
SyncWallpapers ==
    /\ cache.pc = "start"
    /\ \/ /\ ~cache.sync_wallpapers
          /\ cache' = [cache EXCEPT !.pc = "plan"]
       \/ /\ cache.sync_wallpapers
          /\ cache.rsync
          /\ cache' = [cache EXCEPT !.dir = RsyncAll(cache.dir, SortedListing(AllWallpapers, walDir), cache.src),
                                    !.pc = "plan"]
       \/ /\ cache.sync_wallpapers
          /\ cache' = [cache EXCEPT !.walk = SortedListing(AllWallpapers, walDir), !.pc = "walk"]
    /\ UNCHANGED <<Rest, probe, chunk, comp, old, procs>>

\* sync_wallpapers: get_cached_wallpaper(src) of the next file, an
\* exception is logged and ignored
SyncFile ==
    /\ cache.pc = "walk"
    /\ IF cache.walk = <<>>
       THEN cache' = [cache EXCEPT !.pc = "plan"]
       ELSE LET name == Head(cache.walk)
            IN \E o \in Outcomes(cache.src[name].present) :
                  LET r == get_cached_wallpaper(cache.dir, name, cache.src[name].file, cache.rsync, o)
                  IN cache' = [cache EXCEPT !.dir = r.dir, !.call = CallOf(name, o, r),
                                            !.walk = Tail(cache.walk)]
    /\ UNCHANGED <<Rest, probe, chunk, comp, old, procs>>

\* main: walpath = get_cached_wallpaper(src) for the next key of missing;
\* an exception ends the try block
PlanCopy ==
    /\ cache.pc = "plan"
    /\ IF cache.missing = <<>>
       THEN cache' = [cache EXCEPT !.pc = "planned"]
       ELSE LET name == Head(cache.missing)
            IN \E o \in Outcomes(cache.src[name].present) :
                  LET r == get_cached_wallpaper(cache.dir, name, cache.src[name].file, cache.rsync, o)
                  IN cache' = [cache EXCEPT !.dir = r.dir, !.call = CallOf(name, o, r),
                                            !.missing = Tail(cache.missing),
                                            !.pc = IF r.result = "raised" THEN "raised" ELSE "plan"]
    /\ UNCHANGED <<Rest, probe, chunk, comp, old, procs>>

CacheSpec == CacheInit /\ [][SyncWallpapers \/ SyncFile \/ PlanCopy]_vars

(***************************************************************************)
(* The earlier script imagemagick-desktop-maker.py: main with its three    *)
(* pools (effect temporaries, mask temporaries, render) and the removal of *)
(* TEMPDIR in its last line.  `old` is a record of main's position, the    *)
(* files, the lists main builds and the render tasks the pool runs; its    *)
(* fields checked, rechecked and rewritten are history: the paths render   *)
(* tasks have tested, whether a path was tested by a second task (a task   *)
(* calls each method function once), and whether a path was saved again.   *)
(***************************************************************************)
METHODS ==
    <<"BlackOverlay", "Blur", "Flip", "InverseBlur", "InverseBlurDarker", "InverseNegate", "Negate",
      "Pixelate", "ThroughBlack", "WhiteOverlay">>

\* the path a method function writes: OUTDIR/<method>/<maskname>/<walname>.jpg
OldOut(method, maskname, walname) == <<method, maskname, walname>>

\* create_mask_temps: "mask_" + maskname + "_" + walname + ".png" (the
\* shadow file is written with it), rasterized at the size of wal
OldMaskFile(svg, wal) == <<"mask", svg[1], wal[1]>>

\* create_effect_temps: the six files of a wallpaper, named by walname
OldEffectFiles(wal) ==
    {<<e, wal[1]>> : e \in {"blurred_dark", "blurred_darker", "brightened", "negated", "flipped", "pixelated"}}

\* the tuples main appends to renderlist for one result of the mask pool:
\* every wallpaper of templist with every method
RECURSIVE OldRenderTuples(_, _)
OldRenderTuples(result, wallpapers) ==
    IF wallpapers = <<>> THEN <<>>
    ELSE [k \in 1..Len(METHODS) |-> <<result, Head(wallpapers), METHODS[k]>>]
         \o OldRenderTuples(result, Tail(wallpapers))

OldInit ==
    /\ walDir \in { {<<"a", ".jpg">>}, {<<"a", ".jpg">>, <<"b", ".jpg">>}, {<<"a", ".png">>, <<"b", ".jpg">>},
                    {<<"b", ".jpg">>, <<"c", ".txt">>} }
    /\ svgDir = {<<"m", ".svg">>}
    /\ effectsArg = <<"Flip">>
    /\ colorsArg = <<"Black">>
    /\ outRootExisted = TRUE
    /\ outFiles = NoFiles
    /\ partial = {}
    /\ run = 1
    /\ Unused
    /\ outDirs = {<<>>}
    /\ tempdir = TRUE
    /\ tempFiles = NoFiles
    /\ pool = "unbound"
    /\ pc = "loaded"
    /\ stage = "none"
    /\ tasks = NoTasks
    /\ probe = <<>> /\ chunk = <<>> /\ comp = <<>> /\ cache = <<>> /\ procs = <<>>
    /\ old = [pc |-> "main",
              tempdir |-> TRUE,
              temp |-> NoFiles,
              out |-> {},
              effectlist |-> <<>>,
              masklist |-> {},
              templist |-> <<>>,
              renderlist |-> <<>>,
              todo |-> {},
              failed |-> FALSE,
              next |-> 1,
              running |-> <<>>,
              checked |-> {},
              rechecked |-> FALSE,
              rewritten |-> FALSE]

\* main up to the first pool: the listings, Image.open of every wallpaper
\* (which raises for a file that is no image), effectlist, the output
\* directories and masklist
OldPlan ==
    /\ old.pc = "main"
    /\ IF \E f \in walDir : f[2] \notin SupportedExt
       THEN old' = [old EXCEPT !.pc = "raised"]
       ELSE old' = [old EXCEPT !.pc = "effects",
                               !.effectlist = SortedListing(AllWallpapers, walDir),
                               !.masklist = svgDir \X walDir,
                               !.todo = walDir]
    /\ UNCHANGED <<Rest, probe, chunk, comp, cache, procs>>

\* a task's exception is raised in main's loop over imap_unordered; the
\* with block terminates the pool and main ends at the exception
OldRaise ==
    /\ old.pc \in {"effects", "masks", "render"}
    /\ old.failed
    /\ old' = [old EXCEPT !.pc = "raised"]
    /\ UNCHANGED <<Rest, probe, chunk, comp, cache, procs>>

\* create_effect_temps of one wallpaper and templist.append(result)
OldEffectTask ==
    /\ old.pc = "effects"
    /\ \E wal \in old.todo :
          \/ old' = [old EXCEPT !.temp = [p \in DOMAIN old.temp \cup OldEffectFiles(wal) |->
                                              IF p \in OldEffectFiles(wal) /\ p \notin DOMAIN old.temp
                                              THEN wal ELSE old.temp[p]],
                                !.templist = Append(old.templist, wal),
                                !.todo = old.todo \ {wal}]
          \/ old' = [old EXCEPT !.failed = TRUE, !.todo = old.todo \ {wal}]
    /\ UNCHANGED <<Rest, probe, chunk, comp, cache, procs>>

\* the first with block ends; the second pool maps masklist
OldEffectsDone ==
    /\ old.pc = "effects"
    /\ old.todo = {}
    /\ ~old.failed
    /\ old' = [old EXCEPT !.pc = "masks", !.todo = old.masklist]
    /\ UNCHANGED <<Rest, probe, chunk, comp, cache, procs>>

\* create_mask_temps of one (svg, wallpaper) and the body of main's loop for
\* its result
OldMaskTask ==
    /\ old.pc = "masks"
    /\ \E t \in old.todo :
          \/ old' = [old EXCEPT !.temp = AddFile(old.temp, OldMaskFile(t[1], t[2]), t[2]),
                                !.renderlist = old.renderlist \o OldRenderTuples(t, old.templist),
                                !.todo = old.todo \ {t}]
          \/ old' = [old EXCEPT !.failed = TRUE, !.todo = old.todo \ {t}]
    /\ UNCHANGED <<Rest, probe, chunk, comp, cache, procs>>

\* the second with block ends; the third pool maps renderlist
OldMasksDone ==
    /\ old.pc = "masks"
    /\ old.todo = {}
    /\ ~old.failed
    /\ old' = [old EXCEPT !.pc = "render"]
    /\ UNCHANGED <<Rest, probe, chunk, comp, cache, procs>>

\* a worker of Pool(os.cpu_count()) takes the next tuple of renderlist
OldRenderStart ==
    /\ old.pc = "render"
    /\ old.next <= Len(old.renderlist)
    /\ Cardinality(DOMAIN old.running) < OldCpu
    /\ old' = [old EXCEPT !.running = [i \in DOMAIN old.running \cup {old.next} |->
                                          IF i = old.next THEN <<1, "check">> ELSE old.running[i]],
                          !.next = old.next + 1]
    /\ UNCHANGED <<Rest, probe, chunk, comp, cache, procs>>

\* the running tasks after task i has ended the method function k
OldAdvance(i, k) ==
    IF k < Len(METHODS)
    THEN [old.running EXCEPT ![i] = <<k + 1, "check">>]
    ELSE [j \in DOMAIN old.running \ {i} |-> old.running[j]]

\* render evaluates the dictionary of all ten method calls; this is the
\* test `if not os.path.exists(out)` of the k-th method function
OldRenderCheck(i) ==
    /\ old.pc = "render"
    /\ old.running[i][2] = "check"
    /\ LET k == old.running[i][1]
           t == old.renderlist[i]
           out == OldOut(METHODS[k], t[1][1][1], t[2][1])
       IN old' = [old EXCEPT !.checked = old.checked \cup {out},
                             !.rechecked = old.rechecked \/ out \in old.checked,
                             !.running = IF out \in old.out
                                         THEN OldAdvance(i, k)
                                         ELSE [old.running EXCEPT ![i] = <<k, "save">>]]
    /\ UNCHANGED <<Rest, probe, chunk, comp, cache, procs>>

\* the k-th method function opens its files, composes and saves; paste
\* raises ValueError when the mask has not the size of the wallpaper
OldRenderSave(i) ==
    /\ old.pc = "render"
    /\ old.running[i][2] = "save"
    /\ LET k == old.running[i][1]
           t == old.renderlist[i]
           out == OldOut(METHODS[k], t[1][1][1], t[2][1])
       IN IF WalSize(old.temp[OldMaskFile(t[1][1], t[1][2])]) = WalSize(t[2])
          THEN old' = [old EXCEPT !.out = old.out \cup {out},
                                  !.rewritten = old.rewritten \/ out \in old.out,
                                  !.running = OldAdvance(i, k)]
          ELSE old' = [old EXCEPT !.failed = TRUE,
                                  !.running = [j \in DOMAIN old.running \ {i} |-> old.running[j]]]
    /\ UNCHANGED <<Rest, probe, chunk, comp, cache, procs>>

\* the third with block ends, and main's last line: shutil.rmtree(TEMPDIR)
OldRenderDone ==
    /\ old.pc = "render"
    /\ old.next > Len(old.renderlist)
    /\ DOMAIN old.running = {}
    /\ ~old.failed
    /\ old' = [old EXCEPT !.pc = "done", !.tempdir = FALSE, !.temp = NoFiles]
    /\ UNCHANGED <<Rest, probe, chunk, comp, cache, procs>>

\* a worker of the third pool runs the next step of its task
OldWorker == \E i \in DOMAIN old.running : OldRenderCheck(i) \/ OldRenderSave(i)

OldSpec ==
    OldInit /\ [][OldPlan \/ OldRaise \/ OldEffectTask \/ OldEffectsDone \/ OldMaskTask \/ OldMasksDone
                   \/ OldRenderStart \/ OldWorker \/ OldRenderDone]_vars

(***************************************************************************)
(* The processes of a run.  The module globals TEMPDIR (mkdtemp() when the *)
(* module is loaded) and SELECTED_COLORS ({} when the module is loaded,    *)
(* assigned by main) belong to one process.  Pool(processes=workers) uses  *)
(* the default start method of the platform, which the script does not     *)
(* set: a forked worker starts with a copy of main's globals, a spawned or *)
(* forkserver worker loads the module again.  One wallpaper a of size 16x9 *)
(* and one mask m.                                                         *)
(***************************************************************************)
ProcInit ==
    /\ walDir = {<<"a", ".jpg">>}
    /\ svgDir = {<<"m", ".svg">>}
    /\ effectsArg \in ArgLists(all_effects, MaxWideArgs)
    /\ colorsArg \in {<<"Black">>, <<"White", "Black">>}
    /\ outRootExisted = TRUE
    /\ outFiles = NoFiles
    /\ partial = {}
    /\ run = 1
    /\ Unused
    /\ outDirs = {<<>>}
    /\ tempdir = TRUE
    /\ tempFiles = NoFiles
    /\ pool = "unbound"
    /\ pc = "loaded"
    /\ stage = "none"
    /\ tasks = NoTasks
    /\ probe = <<>> /\ chunk = <<>> /\ comp = <<>> /\ cache = <<>> /\ old = <<>>
    /\ \E method \in {"fork", "spawn", "forkserver"}, present \in SUBSET {styles[1]} :
          procs = [method |-> method,
                   main |-> [TEMPDIR |-> 0, SELECTED_COLORS |-> <<>>],
                   workers |-> <<>>,
                   files |-> {},
                   effect_paths |-> <<>>,
                   out |-> present,
                   result |-> <<>>,
                   pc |-> "main"]

\* main: SELECTED_COLORS = {c: ALL_COLORS_DICT[c] for c in selected_colors}
ProcSetColors ==
    /\ procs.pc = "main"
    /\ procs' = [procs EXCEPT !.main.SELECTED_COLORS = [c \in Range(colorsArg) |-> ALL_COLORS_DICT[c]],
                              !.pc = "plan"]
    /\ UNCHANGED <<Rest, probe, chunk, comp, cache, old>>

\* pool = Pool(processes=workers): the globals each worker process starts with
ProcPool ==
    /\ procs.pc = "plan"
    /\ procs' = [procs EXCEPT !.workers = [w \in 1..MaxProcs |->
                                              IF procs.method = "fork"
                                              THEN procs.main
                                              ELSE [TEMPDIR |-> w, SELECTED_COLORS |-> <<>>]],
                              !.pc = "mask"]
    /\ UNCHANGED <<Rest, probe, chunk, comp, cache, old>>

\* create_mask_temps((m.svg, size)) in worker w: the three files are saved
\* under the TEMPDIR of the worker
ProcMask(w) ==
    /\ procs.pc = "mask"
    /\ procs' = [procs EXCEPT !.files = procs.files \cup
                                  {<<procs.workers[w].TEMPDIR, MaskTemp(k, "m", <<16, 9>>)>> :
                                      k \in {"mask", "shadow", "logocolor"}},
                              !.pc = "effect"]
    /\ UNCHANGED <<Rest, probe, chunk, comp, cache, old>>

\* create_single_effect in worker w for one effect of effect_set: the file is
\* saved under the TEMPDIR of the worker and its path is returned to main,
\* which stores it in effect_paths
ProcEffect(w) ==
    /\ procs.pc = "effect"
    /\ \E e \in effect_set(styles) \ DOMAIN procs.effect_paths :
          LET path == <<procs.workers[w].TEMPDIR, EffectTemp(e, "a")>>
          IN procs' = [procs EXCEPT !.files = procs.files \cup {path},
                                    !.effect_paths = AddFile(procs.effect_paths, e, path)]
    /\ UNCHANGED <<Rest, probe, chunk, comp, cache, old>>

\* main builds the pointers of the task of one style (the effect paths as
\* returned, the mask paths from its own TEMPDIR) and worker w runs render():
\* Render.__init__ fills switch from the SELECTED_COLORS of the worker,
\* Render.render tests the output, looks the style up, and func opens the
\* files of the pointers
ProcRender(w) ==
    /\ procs.pc = "effect"
    /\ DOMAIN procs.effect_paths = effect_set(styles)
    /\ \E i \in 1..Len(styles) :
          LET style == styles[i]
              method == SwitchGet(procs.workers[w].SELECTED_COLORS, style)
              opened == {<<procs.main.TEMPDIR, MaskTemp(k, "m", <<16, 9>>)>> : k \in ReadsMask(method)}
                        \cup {procs.effect_paths[e] : e \in ReadsEffect(method)}
              r == IF style \in procs.out THEN "exists"
                   ELSE IF method = "" THEN "nothing"
                   ELSE IF opened \subseteq procs.files THEN "saved"
                   ELSE "FileNotFoundError"
          IN /\ style \notin DOMAIN procs.result
             /\ procs' = [procs EXCEPT !.result = AddFile(procs.result, style, r),
                                       !.out = IF r = "saved" THEN procs.out \cup {style} ELSE procs.out]
    /\ UNCHANGED <<Rest, probe, chunk, comp, cache, old>>

\* finally: pool.close(), pool.join(), shutil.rmtree(TEMPDIR) of main
ProcFinally ==
    /\ procs.pc = "effect"
    /\ DOMAIN procs.result = Range(styles)
    /\ procs' = [procs EXCEPT !.files = {f \in procs.files : f[1] # procs.main.TEMPDIR},
                              !.pc = "done"]
    /\ UNCHANGED <<Rest, probe, chunk, comp, cache, old>>

ProcSpec ==
    ProcInit /\ [][ProcSetColors \/ ProcPool \/ ProcFinally
                   \/ \E w \in 1..MaxProcs : ProcMask(w) \/ ProcEffect(w) \/ ProcRender(w)]_vars

(***************************************************************************)
(* compute_chunksize applied to task counts and worker counts.             *)
(***************************************************************************)
ChunkInit ==
    /\ NoInputs
    /\ Unused
    /\ outDirs = {<<>>}
    /\ tempdir = TRUE
    /\ tempFiles = NoFiles
    /\ pool = "unbound"
    /\ pc = "loaded"
    /\ stage = "none"
    /\ tasks = NoTasks
    /\ probe = <<>> /\ comp = <<>> /\ cache = <<>> /\ old = <<>> /\ procs = <<>>
    /\ chunk \in {<<n, w>> : n \in (0 - 2)..MaxTasks, w \in {<<>>} \cup {<<k>> : k \in (0 - 2)..MaxWorkers}}

ComputeChunksize ==
    /\ Len(chunk) = 2
    /\ chunk' = <<chunk[1], chunk[2], compute_chunksize(chunk[1], chunk[2])>>
    /\ UNCHANGED <<Rest, probe, comp, cache, old, procs>>

ChunkSpec == ChunkInit /\ [][ComputeChunksize]_vars

(***************************************************************************)
(* Properties.                                                             *)
(***************************************************************************)
\* the (wallpaper file, mask file, style) triples the scan recorded as missing
MissingTriples ==
    UNION {UNION {{<<img, mf, st>> : st \in Range(missing[img][mf])} : mf \in DOMAIN missing[img]} :
           img \in DOMAIN missing}

TripleOut(tr) == OutPath(tr[2][1], tr[1][1], tr[3])

RunEndedClean == pc = "done" /\ ~failed

\* C1: when main finishes a run in which nothing failed, every triple the
\* scan recorded as missing has been given a compose task and its output
\* file exists.
C1_EveryMissingTripleComposed ==
    RunEndedClean =>
        \A tr \in MissingTriples :
            /\ \E t \in dispatchedRender : t[1] = tr[1] /\ t[2] = tr[3] /\ t[3] = TripleOut(tr)
            /\ OutExists(TripleOut(tr))

\* C2: the second of two runs in a row finds an empty work index, dispatches
\* no rasterize, effect or compose task and writes no output file.
C2_SecondRunDoesNothing ==
    run = 2 =>
        /\ DOMAIN missing = {}
        /\ dispatchedMask = {}
        /\ dispatchedEffect = {}
        /\ dispatchedRender = {}
        /\ DOMAIN written = {}

\* no two compose tasks of the running batch share an output path
BatchOutputsDistinct ==
    stage = "render" => \A t1, t2 \in DOMAIN tasks : t1[3] = t2[3] => t1 = t2

\* a step keeps every existing output file: it is neither removed, nor
\* changed, nor saved again
OutputsKept ==
    \A p \in DOMAIN outFiles :
        /\ p \in DOMAIN outFiles'
        /\ outFiles'[p] = outFiles[p]
        /\ (p \in DOMAIN written' /\ run' = run) => (p \in DOMAIN written /\ written'[p] = written[p])

\* C3: an output file that exists is never written again: the set of output
\* files only grows, every file keeps its content, and no two compose tasks
\* of one batch share an output path.
C3_OutputsNeverRewritten == [][OutputsKept]_vars /\ []BatchOutputsDistinct

\* a compose task found its output present at its check and returned, and
\* the file is the one that was there at scan time
C3_Witness ==
    /\ stage = "render"
    /\ \E t \in DOMAIN tasks :
          /\ tasks[t] = "done"
          /\ OutExists(t[3])
          /\ outFiles[t[3]] = OldFile
    /\ DOMAIN written # {}

SupportedWallpapers == {img \in walDir : img[2] \in SupportedExt}

\* wallpaper files x mask files x distinct styles of the command line
CrossProduct == SupportedWallpapers \X svgDir \X Range(styles)

\* how many times the work index holds a triple
Occurrences(tr) ==
    IF tr[1] \in DOMAIN missing /\ tr[2] \in DOMAIN missing[tr[1]]
    THEN Cardinality({i \in 1..Len(missing[tr[1]][tr[2]]) : missing[tr[1]][tr[2]][i] = tr[3]})
    ELSE 0

RECURSIVE SumOver(_, _)
SumOver(S, f) == IF S = {} THEN 0 ELSE LET x == CHOOSE y \in S : TRUE IN f[x] + SumOver(S \ {x}, f)

\* the number of entries of the work index
WorkIndexSize ==
    LET keys == {<<img, mf>> \in walDir \X svgDir : img \in DOMAIN missing /\ mf \in DOMAIN missing[img]}
    IN SumOver(keys, [k \in keys |-> Len(missing[k[1]][k[2]])])

RequiredEffects(style) ==
    CASE style = <<"Blur">> -> {"blurred_dark", "brightened"}
      [] style = <<"InverseBlur">> -> {"blurred_dark"}
      [] style = <<"InverseBlurDarker">> -> {"blurred_darker"}
      [] style = <<"Flip">> -> {"flipped"}
      [] style \in {<<"Negate">>, <<"InverseNegate">>} -> {"negated"}
      [] style \in {<<"Pixelate">>, <<"InversePixelate">>} -> {"pixelated"}
      [] Len(style) = 2 /\ style[1] = "ColorOverlayBlur" -> {"blurred"}
      [] style \in {<<"ThroughBlack">>, <<"LogoColors">>} -> {}
      [] Len(style) = 2 /\ style[1] \in {"ColorOverlay", "ColorThrough"} -> {}

\* union of the required effects over the styles missing for a wallpaper
\* under any mask
NeededEffects(img) == UNION {RequiredEffects(tr[3]) : tr \in {x \in MissingTriples : x[1] = img}}

EffectsDispatchedFor(img) == {t[4] : t \in {d \in dispatchedEffect : d[1] = img}}

\* C5: the effect tasks dispatched for a wallpaper of the work index are
\* exactly the union of the required effects of its missing styles: none
\* before its effect stage, exactly that set from its dispatch on, and for
\* every wallpaper once a run has ended without failure.
C5_EffectTasksMinimal ==
    \A img \in DOMAIN missing :
        /\ EffectsDispatchedFor(img) \in {{}, NeededEffects(img)}
        /\ (pc \in {"effect_stage", "render_stage"} /\ WalOrder[walIdx] = img)
              => EffectsDispatchedFor(img) = NeededEffects(img)
        /\ RunEndedClean => EffectsDispatchedFor(img) = NeededEffects(img)

\* a wallpaper missing only Flip has been given exactly the task flipped
C5_Witness ==
    \E img \in DOMAIN missing :
        /\ {tr[3] : tr \in {x \in MissingTriples : x[1] = img}} = {<<"Flip">>}
        /\ EffectsDispatchedFor(img) = {"flipped"}
        /\ pc = "effect_stage"

\* the cache key of a rasterize task: (mask name, size)
MaskKey(t) == <<t[1][1], t[2]>>

NeededMaskKeys == {<<tr[2][1], WalSize(tr[1])>> : tr \in MissingTriples}

MaskStageOver == pc \in {"effects", "effect_stage", "render_stage"} \/ (RunEndedClean /\ pool = "closed")

\* C6: for every (mask, pixel size) pair the work index needs, exactly one
\* rasterize task is dispatched and the rasterizer is invoked exactly once.
C6_OneRasterizePerKey ==
    MaskStageOver =>
        \A k \in NeededMaskKeys :
            /\ Cardinality({t \in dispatchedMask : MaskKey(t) = k}) = 1
            /\ Cardinality({t \in rasterized : MaskKey(t) = k}) = 1

\* C7: no two effect tasks dispatched in a run target the same effect file
\* and no two compose tasks dispatched in a run target the same output path.
C7_NoKeyScheduledTwice ==
    /\ \A t1, t2 \in dispatchedEffect :
          EffectTemp(t1[4], t1[2]) = EffectTemp(t2[4], t2[2]) => t1 = t2
    /\ \A t1, t2 \in dispatchedRender : t1[3] = t2[3] => t1 = t2

\* C8: once main has entered its try block, the temp directory no longer
\* exists when main ends, normally or by an exception.
C8_TempdirRemovedAfterTry == pc = "done" => ~tempdir

\* main has ended after an exception raised before `pool` was bound
C8_Witness == pc = "done" /\ failed /\ pool = "unbound" /\ ~tempdir

\* C9: on every path by which the process ends after the temp directory was
\* created, the temp directory has been removed.
C9_TempdirRemovedOnEveryExit == pc \in {"done", "exited"} => ~tempdir

\* C10: a task's error does not stop the run: the following stages and the
\* remaining wallpapers are still processed, so a run that had created its
\* pool ends with compose tasks dispatched for every wallpaper of the work
\* index.
C10_TaskErrorDoesNotStopRun ==
    (pc = "done" /\ pool = "closed") =>
        \A img \in DOMAIN missing : \E t \in dispatchedRender : t[1] = img

\* C11: at every moment, every file present at a final output path is a
\* completely written image.
C11_VisibleOutputsComplete == \A p \in DOMAIN outFiles : p \notin partial

\* a compose task that finds a temp file of its method missing when it
\* composes does not raise: it goes on to save its output, and the files it
\* reads exist again
MissRecovered ==
    \A t \in DOMAIN tasks :
        (/\ stage = "render"
         /\ stage' = "render"
         /\ tasks[t] = "compose"
         /\ RenderMethod(t[2]) # ""
         /\ ~RenderInputsPresent(t)
         /\ t \in DOMAIN tasks'
         /\ tasks'[t] # "compose")
        => /\ tasks'[t] \in {"saving", "done"}
           /\ \A f \in RenderInputs(t) : f \in DOMAIN tempFiles'

\* C12: a compose task whose temp artifact is missing at use time regenerates
\* it and writes its output; the task is not aborted.
C12_MissingArtifactRegenerated == [][MissRecovered]_vars

NothingDispatched == dispatchedMask = {} /\ dispatchedEffect = {} /\ dispatchedRender = {}

\* C13: with an empty masks or wallpapers directory the run is aborted before
\* the pool is created: no pool, no task, and main ends by an error; an
\* error of the directory listing leaves no pool and no task either.
C13_EmptyInputAbortsBeforePool ==
    /\ (walDir = {} \/ svgDir = {}) =>
          /\ pool \in {"unbound", "none"}
          /\ NothingDispatched
          /\ pc = "done" => failed
    /\ (failed /\ pool = "unbound") => NothingDispatched

\* position of a wallpaper in the order main processes them
WalPos(img) == CHOOSE i \in 1..Len(WalOrder) : WalOrder[i] = img

\* C14: when a compose task of a wallpaper has been dispatched, every
\* rasterize task of the run and every effect task of that wallpaper has
\* returned; when an effect task of a wallpaper has been dispatched, every
\* compose task of the wallpapers before it has returned.
C14_StagesOrdered ==
    /\ \A r \in dispatchedRender :
          /\ dispatchedMask \subseteq returned
          /\ {e \in dispatchedEffect : e[1] = r[1]} \subseteq returned
    /\ \A e \in dispatchedEffect : \A r \in dispatchedRender :
          WalPos(r[1]) < WalPos(e[1]) => r \in returned

\* in the compose stage of the second wallpaper, the task of the later style
\* has saved its output while the task of the earlier style is still queued
C14_Witness ==
    /\ pc = "render_stage"
    /\ walIdx = 2
    /\ \E t1, t2 \in DOMAIN tasks :
          /\ StyleRank(t1[2]) < StyleRank(t2[2])
          /\ tasks[t1] = "queued"
          /\ tasks[t2] = "done"
          /\ t2[3] \in DOMAIN written

IsEffectFile(f) == f[1] \in {"blurred", "brightened", "flipped", "negated", "pixelated"}

EffectFiles == {f \in DOMAIN tempFiles : IsEffectFile(f)}

\* C15: in a run without task failure, the effect files in the temp
\* directory were made from at most one wallpaper, and none is left when
\* main is between two wallpapers.
C15_EffectFilesOfOneWallpaper ==
    (~failed /\ ~SomeFailed) =>
        /\ Cardinality({tempFiles[f] : f \in EffectFiles}) <= 1
        /\ pc = "effects" => EffectFiles = {}

\* the first of two wallpapers has been composed from its effect files and
\* main is about to dispatch the effects of the second
C15_Witness ==
    /\ pc = "effects"
    /\ walIdx = 2
    /\ Len(WalOrder) = 2
    /\ ~failed
    /\ \E e \in dispatchedEffect : e[1] = WalOrder[1] /\ e \in transformed
    /\ EffectFiles = {}

\* C17: whenever a create_mask_temps task has returned, the mask file, the
\* shadow file and the colored-logo file of its key all exist.
C17_ReturnedMaskTaskSeesThreeFiles ==
    pc = "mask_stage" =>
        \A t \in DOMAIN tasks :
            tasks[t] = "done" => \A k \in MaskKinds : TempExists(MaskTemp(k, t[1][1], t[2]))

\* C20: when the output root did not exist at the start of the run, the work
\* index the scan builds is the whole cross product, and the directory of
\* every compose task that has been dispatched exists.
C20_AbsentRootAllMissing ==
    (run = 1 /\ ~outRootExisted) =>
        /\ pool # "unbound" =>
              /\ MissingTriples = CrossProduct
              /\ \A tr \in CrossProduct : Occurrences(tr) = 1
        /\ \A t \in dispatchedRender : {<<>>, <<t[3][1], t[3][2]>>} \subseteq outDirs

\* started without an output root, the run has dispatched compose tasks and
\* one of them has saved its output
C20_Witness ==
    /\ run = 1
    /\ ~outRootExisted
    /\ Cardinality(MissingTriples) >= 2
    /\ dispatchedRender # {}
    /\ \E t \in dispatchedRender : t[3] \in DOMAIN written /\ t[3] \notin partial

\* a call that finds its cache file present returns at once: it invokes
\* neither the rasterizer nor the effect transform and leaves every temp
\* file as it is
CachedCallReturns ==
    \A t \in DOMAIN tasks :
        (/\ stage' = stage
         /\ t \in DOMAIN tasks'
         /\ tasks[t] = "queued"
         /\ tasks'[t] # "queued"
         /\ \/ stage = "mask" /\ TempExists(MaskTemp("mask", t[1][1], t[2]))
            \/ stage = "effect" /\ TempExists(EffectTemp(t[4], t[2])))
        => /\ tasks'[t] = "done"
           /\ tempFiles' = tempFiles
           /\ rasterized' = rasterized
           /\ transformed' = transformed

\* C16: create_mask_temps called for a key whose mask file exists, and
\* EffectCreator.execute called for a key whose effect file exists, invoke
\* no rasterizer and no transform, write and change no temp file, and return
\* the paths of the key.
C16_CachedCallIsIdempotent == [][CachedCallReturns]_vars

\* an effect call has returned without a transform and its file is there,
\* and so has a mask call without the rasterizer
C16_Witness ==
    /\ stage = "effect"
    /\ \E t \in DOMAIN tasks :
          /\ tasks[t] = "done"
          /\ t \notin transformed
          /\ TempExists(EffectTemp(t[4], t[2]))
    /\ \E t \in dispatchedMask :
          /\ t \in returned
          /\ t \notin rasterized
          /\ TempExists(MaskTemp("mask", t[1][1], t[2]))

\* C18: two keys yield the same temp-file name exactly when they are the
\* same key, for the mask, shadow and colored-logo files and for the effect
\* files.
C18_TempNamesCollisionFree ==
    (probe # <<>> /\ probe[1] \in {"mask", "effect"}) => (probe[4] = probe[5] <=> probe[2] = probe[3])

\* the file name the layout gives a style: <style> for a base style and
\* <color><family without Color> for a family/color style
LayoutName(style) ==
    IF Len(style) = 1 THEN Tok(style[1])
    ELSE <<style[2]>> \o (CASE style[1] = "ColorOverlay" -> <<"Overlay">>
                            [] style[1] = "ColorOverlayBlur" -> <<"Overlay", "Blur">>
                            [] style[1] = "ColorThrough" -> <<"Through">>)

\* C19: the output path of a triple is <mask>/<wallpaper>/<name of the style
\* in the layout>, and two triples have the same path only when they are
\* the same triple.
C19_OutPathInjective ==
    (probe # <<>> /\ probe[1] = "out") =>
        /\ probe[4] = <<probe[2][2], probe[2][1], LayoutName(probe[2][3])>>
        /\ probe[4] = probe[5] => probe[2] = probe[3]

\* the paths of a base style and of a family/color style of one wallpaper
\* and mask have been computed
C19_Witness ==
    /\ probe # <<>>
    /\ probe[1] = "out"
    /\ probe[2] = <<"a", "m", <<"ThroughBlack">>>>
    /\ probe[3] = <<"a", "m", <<"ColorThrough", "Black">>>>
    /\ probe[4] # probe[5]

\* the number of chunks imap_unordered cuts n tasks into
NumChunks(n, size) == (n + size - 1) \div size

\* C29: compute_chunksize returns an integer >= 1 for every task count and
\* every worker count (0, None and negative included): 1 when n_tasks <= 0,
\* max(1, n_tasks // (4 * n_workers)) when n_workers >= 1, and then with
\* n_tasks >= 4 * n_workers the task list is cut into at least 4 * n_workers
\* chunks
C29_ChunksizeAtLeastOne ==
    Len(chunk) = 3 =>
        LET n == chunk[1]
            w == chunk[2]
            r == chunk[3]
        IN /\ r \in Nat /\ r >= 1
           /\ n <= 0 => r = 1
           /\ (w # <<>> /\ w[1] >= 1) =>
                 /\ r = (IF n \div (4 * w[1]) > 1 THEN n \div (4 * w[1]) ELSE 1)
                 /\ n >= 4 * w[1] => NumChunks(n, r) >= 4 * w[1]

C29_Witness == Len(chunk) = 3 /\ chunk[1] = 17 /\ chunk[2] = <<2>> /\ chunk[3] = 2

\* a step of the render call keeps every file but the output as it was
OtherFilesKept ==
    comp # <<>> =>
        /\ \A n \in DOMAIN comp.files \ {"out"} : n \in DOMAIN comp'.files /\ comp'.files[n] = comp.files[n]
        /\ DOMAIN comp'.files \subseteq DOMAIN comp.files \cup {"out"}

\* C21: a compose task changes at most one file, its own output path: for
\* every style the mask, shadow, colored-logo and effect files and the cached
\* wallpaper file are the same after every step of the task, also when the
\* method pastes into the opened wallpaper or rewrites the opened mask
C21_ComposeChangesOnlyItsOutput == [][OtherFilesKept]_vars

\* InversePixelate has pasted into the opened wallpaper and has saved
C21_Witness ==
    /\ comp # <<>>
    /\ comp.pc = "returned"
    /\ comp.style = <<"InversePixelate">>
    /\ comp.opened # <<>>
    /\ comp.opened.wal # comp.files["wal"]
    /\ "out" \in DOMAIN comp.files

Composed == comp # <<>> /\ comp.pc \in {"save", "returned"} /\ comp.img # <<>>

\* C22: the composed ThroughBlack bitmap has the wallpaper's dimensions,
\* equals the wallpaper at every pixel where the mask is fully opaque and is
\* black at every pixel where the mask is fully transparent
C22_ThroughBlackPixels ==
    (Composed /\ comp.style = <<"ThroughBlack">>) =>
        LET wal == comp.files["wal"]
            mask == comp.files["mask"]
        IN /\ comp.img.size = wal.size
           /\ Len(comp.img.px) = Len(wal.px)
           /\ \A i \in 1..Len(wal.px) :
                 /\ mask.px[i][4] = 255 => comp.img.px[i] = wal.px[i]
                 /\ mask.px[i][4] = 0 => comp.img.px[i] = <<0, 0, 0>>

C22_Witness ==
    /\ Composed
    /\ comp.style = <<"ThroughBlack">>
    /\ comp.files["wal"].size = <<2, 1>>
    /\ comp.files["mask"].px[1][4] = 255
    /\ comp.files["mask"].px[2][4] = 0
    /\ comp.img.px = << <<200, 100, 50>>, <<0, 0, 0>> >>

\* the RGB values of the palette entries #0F94D2, #000000 and #FFFFFF
PaletteRGB(c) ==
    CASE c = "ArchBlue" -> <<15, 148, 210>>
      [] c = "Black" -> <<0, 0, 0>>
      [] c = "White" -> <<255, 255, 255>>

C24_ColorThroughAlphaAtLeastHalf ==
    (Composed /\ Len(comp.style) = 2 /\ comp.style[1] = "ColorThrough") =>
        \A i \in 1..Len(comp.opened.mask.px) :
            LET a == comp.files["mask"].px[i][4]
                used == comp.opened.mask.px[i][4]
            IN /\ 2 * used >= 255
               /\ 2 * a >= 255 => used = a

\* the cached file existed and had the size and the whole-second mtime of
\* the source when the call was made
WasValid(c) ==
    /\ c.name \in DOMAIN c.before
    /\ c.stat = "ok"
    /\ c.before[c.name].size = cache.src[c.name].file.size
    /\ c.before[c.name].mtime \div 10 = cache.src[c.name].file.mtime \div 10

\* C25: get_cached_wallpaper returns the cached file without copying only
\* when it exists with the size and whole-second mtime of the source; in
\* every other case (file absent, size differs, mtime differs, stat of the
\* source fails) it attempts a copy, rsync first and copy2 when rsync is
\* absent or fails; a returned value is <cache dir>/<source basename>
C25_CacheRevalidates ==
    (cache # <<>> /\ cache.call # <<>>) =>
        LET c == cache.call
        IN /\ (c.copies = <<>> /\ c.result # "raised") => WasValid(c)
           /\ ~WasValid(c) => c.copies # <<>>
           /\ c.copies \in {<<>>, <<"rsync">>, <<"rsync", "copy2">>, <<"copy2">>}
           /\ c.copies # <<>> => (c.copies[1] = "rsync" <=> cache.rsync)
           /\ c.result # "raised" => c.result = <<"CACHE_DIR", c.name>>

\* C30: a wallpaper-directory entry whose extension is not .jpg, .jpeg or
\* .png is not copied into the source cache
C30_UnsupportedEntryNotCached ==
    cache # <<>> => \A n \in DOMAIN cache.dir : n[2] \in SupportedExt

\* C26: in the earlier script TEMPDIR does not exist after main has ended,
\* also when main ended at the error of a task of one of the three stages
C26_OldTempdirRemoved ==
    (old # <<>> /\ old.pc \in {"done", "raised"}) => ~old.tempdir

\* C27: in the earlier script every output path is checked and written by at
\* most one render task of the run
C27_OldOnePathOneTask ==
    old # <<>> =>
        /\ ~old.rechecked
        /\ ~old.rewritten

\* C28: in the earlier script every render task pairs a wallpaper with the
\* mask and shadow files that were rasterized for that wallpaper
C28_OldMaskOfOwnWallpaper ==
    old # <<>> => \A i \in 1..Len(old.renderlist) : old.renderlist[i][1][2] = old.renderlist[i][2]

\* the compose tasks that found their output absent and have not yet opened
\* their inputs
Composing == {t \in DOMAIN tasks : stage = "render" /\ tasks[t] = "compose"}

\* a rasterize task of this run for the key (mask name, size) has returned
MaskReturned(maskname, size) ==
    \E m \in dispatchedMask \cap returned : MaskKey(m) = <<maskname, size>>

\* an effect task of this run for the wallpaper file and the effect has returned
EffectReturned(wal, effect) == <<wal, wal[1], WalSize(wal), effect>> \in dispatchedEffect \cap returned

\* In a run whose workers share the TEMPDIR of main (forked workers), every
\* compose task that finds its output absent reads only files that exist at
\* that moment: its mask, shadow and colored-logo files belong to a
\* (mask, size) key whose rasterize task of this run has returned, every
\* effect file its style opens was made by a returned effect task of the same
\* wallpaper, and the directory of its output path has been created.
ForkedComposeInputsExist ==
    \A t \in Composing :
        LET method == RenderMethod(t[2])
        IN /\ \A k \in ReadsMask(method) :
                 /\ TempExists(MaskTemp(k, t[4], WalSize(t[1])))
                 /\ MaskReturned(t[4], WalSize(t[1]))
           /\ \A e \in ReadsEffect(method) :
                 /\ e \in t[5]
                 /\ TempExists(EffectTemp(e, t[1][1]))
                 /\ tempFiles[EffectTemp(e, t[1][1])] = t[1]
                 /\ EffectReturned(t[1], e)
           /\ <<t[3][1], t[3][2]>> \in outDirs

\* a compose task of the second wallpaper is about to open a mask file, a
\* shadow file and an effect file, for a mask that is not the only one of
\* the run
ForkedComposeWitness ==
    /\ walIdx = 2
    /\ Cardinality(svgDir) = 2
    /\ \E t \in Composing :
          /\ ReadsEffect(RenderMethod(t[2])) # {}
          /\ "shadow" \in ReadsMask(RenderMethod(t[2]))
          /\ t[1] = WalOrder[2]

\* C31: no compose task that finds its output absent fails on a missing
\* input: the files its method opens exist when it opens them.
C31_NoComposeFailsOnMissingInput ==
    procs # <<>> => \A st \in DOMAIN procs.result : procs.result[st] # "FileNotFoundError"

\* C32: for every style of the work index, a compose task that finds its
\* output absent and does not fail ends with the output written; it never
\* returns without writing: the style resolves to a composition method in
\* the worker process, family/color styles included.
C32_ComposeNeverReturnsSilently ==
    procs # <<>> =>
        \A st \in DOMAIN procs.result :
            procs.result[st] \notin {"exists", "FileNotFoundError"} =>
                /\ procs.result[st] = "saved"
                /\ st \in procs.out

\* the temp files that exist before a step and not after it
Removed == {f \in DOMAIN tempFiles : tempdir /\ ~(tempdir' /\ f \in DOMAIN tempFiles')}

\* C33: no temp file is removed while a dispatched compose task that reads it
\* is unfinished: an effect file is removed only after every compose task of
\* its wallpaper has returned, and a mask, shadow or colored-logo file only
\* after the last compose task of the run has returned, when the temp
\* directory is removed after the pool has been closed and joined.
C33_TempsOutliveTheirReaders ==
    [][\A f \in Removed :
          /\ \A t \in dispatchedRender : f \in RenderInputs(t) => t \in returned
          /\ IsEffectFile(f) => \A t \in dispatchedRender : t[1] = tempFiles[f] => t \in returned
          /\ ~IsEffectFile(f) =>
                /\ dispatchedRender \subseteq returned
                /\ \A t \in DOMAIN tasks : tasks[t] \in Terminal
                /\ pc = "finally" /\ pc' = "done"
                /\ pool' # "open"]_vars

\* the effect file of the first of two wallpapers has been removed after its
\* compose task returned, and the mask file that task read is still there
C33_Witness ==
    /\ pc = "effects"
    /\ walIdx = 2
    /\ Len(WalOrder) = 2
    /\ \E t \in dispatchedRender \cap returned :
          /\ ReadsEffect(RenderMethod(t[2])) # {}
          /\ t[3] \in DOMAIN written
          /\ \A e \in ReadsEffect(RenderMethod(t[2])) : ~TempExists(EffectTemp(e, t[1][1]))
          /\ TempExists(MaskTemp("mask", t[4], WalSize(t[1])))

====
